---- MODULE Spec2Model ----
(***************************************************************************)
(* A model of the StartOS service-lifecycle substrate: the package         *)
(* database (PatchDB), the per-package supervisor, and the effect handlers  *)
(* of core/startos/src/service/service_effect_handler.rs, the Merkle        *)
(* archive of core/startos/src/s9pk/merkle_archive, RpcContext, the setup   *)
(* RPCs of core/startos/src/setup.rs and the streams of util/io.rs.         *)
(*                                                                          *)
(* The specifications share the variables:                                  *)
(*   Spec        - supervisor state machine with the start-time gate        *)
(*   SpecEffects - guests' effect calls, backup, removal, seed lifetime     *)
(*   SpecDeps    - setDependencies / getDependencies                        *)
(*   SpecBoot    - boot reconciliation beside setDependencies               *)
(*   SpecStore   - the private per-package store                            *)
(*   SpecArchive - serialize / deserialize / filter of a Merkle archive     *)
(*   SpecOverlay - createOverlayedImage / destroyOverlayedImage             *)
(*   SpecNet     - bind / getServicePortForward                             *)
(*   SpecShutdown- RpcContext::shutdown beside the guests' calls            *)
(*   SpecReboot  - services.init and the rest of cleanup_and_initialize     *)
(*   SpecTimeout - polls of a TimeoutStream while time passes               *)
(*   SpecTmp     - TmpDir new / delete / drop and the spawned removals      *)
(*   SpecIfaces  - exportServiceInterface / listServiceInterfaces / bind    *)
(*   SpecSetup   - setup.attach / execute / status / complete and the task  *)
(*   SpecHash    - ParallelBlake3Writer beside its hasher task, weakly fair *)
(*   SpecTee     - TeeWriter over two inner writers of any readiness        *)
(*   SpecBackTracking - BackTrackingReader: buffering, rewind and replay     *)
(*   SpecNtp     - the NTP watcher task beside RpcContext::shutdown          *)
(*   SpecResign  - an archive read, changed and written again                *)
(*   SpecParallel- the hasher on buffers of about 128 KiB                    *)
(***************************************************************************)
EXTENDS Integers, Sequences, FiniteSets, TLC

VARIABLES
    package_data,    \* db.public.package_data : PackageId -> PackageDataEntry
    package_stores,  \* db.private.package_stores : PackageId -> Value
    services,        \* RpcContext.services : ids that have a supervisor actor
    seeds,           \* ids whose ServiceActorSeed is still alive (Weak upgrades)
    ci,              \* cleanup_and_initialize: [pc, snapshot]
    result,          \* outcome of the last operation
    hist,            \* history of calls, read only by the properties
    persistent_container, \* per package: overlays, lxc_container, net_service
    fs,              \* host filesystem: overlay mountpoint directories, mounts
    is_closed,       \* RpcContext.is_closed
    sd,              \* RpcContext::shutdown: [pc, all, left]
    ar,              \* an s9pk archive in memory and its serialized image
    ts,              \* a TimeoutStream: [now, deadline, last, brisk]
    tmp,             \* TmpDir values and the directories under /var/tmp/startos
    su,              \* SetupContext: setup_status, setup_result and its tasks
    pw,              \* a ParallelBlake3Writer and its background hasher
    tee,             \* a TeeWriter, its two inner writers and what they got
    btr,             \* a BackTrackingReader over a byte stream
    ntp              \* server_info.ntp_synced and the NTP watcher task

vars == <<package_data, package_stores, services, seeds, ci, result, hist,
          persistent_container, fs, is_closed, sd, ar, ts, tmp, su, pw,
          tee, btr, ntp>>

\* the state of util/io.rs and setup.rs, and the NTP watcher
ioVars == <<ts, tmp, su, pw, tee, btr, ntp>>

\* the state outside the package database and the supervisor
extVars == <<persistent_container, fs, is_closed, sd, ar, ioVars>>

dbVars == <<package_data, package_stores>>

------------------------------------------------------------------------------
(* Identities and small input sets *)

PackageIds == {"a", "b"}

HealthCheckIds == {"main", "aux"}

\* status::health_check::HealthCheckResult, as listed by the effect schema
HealthResults == {"Starting", "Loading", "Passing", "Failing", "Disabled"}

\* the results the guests of the model report
SomeResults == {"Passing", "Failing"}

Versions == {"1.0.0", "2.0.0"}

VersionSpecs == {"*", "=2.0.0"}

\* emver: Version::satisfies(&VersionRange)
Satisfies(v, spec) == spec = "*" \/ (spec = "=2.0.0" /\ v = "2.0.0")

EmptyMap == [x \in {} |-> TRUE]

MapPut(m, k, v) == [x \in DOMAIN m \cup {k} |-> IF x = k THEN v ELSE m[x]]

MapDel(m, k) == [x \in DOMAIN m \ {k} |-> m[x]]

------------------------------------------------------------------------------
(* MainStatus *)

StatusTags ==
    {"Stopped", "Starting", "Running", "Stopping", "Restarting", "BackingUp",
     "Restoring", "Configuring"}

Plain(tag) == [tag |-> tag, started |-> FALSE, health |-> EmptyMap]

Stopped == Plain("Stopped")

RunningStatus(h) == [tag |-> "Running", started |-> TRUE, health |-> h]

BackingUpStatus(h) == [tag |-> "BackingUp", started |-> FALSE, health |-> h]

\* MainStatus::health(): Some for the variants that carry a health map
HasHealth(main) == main.tag \in {"Running", "BackingUp"}

------------------------------------------------------------------------------
(* Results *)

Ok(op, caller, value) ==
    [op |-> op, caller |-> caller, kind |-> "Ok", value |-> value,
     alive |-> caller \in seeds]

Err(op, caller, kind, value) ==
    [op |-> op, caller |-> caller, kind |-> kind, value |-> value,
     alive |-> caller \in seeds]

NoResult == [op |-> "none", caller |-> "none", kind |-> "Ok", value |-> "none",
             alive |-> TRUE]

\* EffectContext::deref: the weak reference upgrades iff the seed is alive
deref(p) == p \in seeds

Destroyed(op, p) == Err(op, p, "InvalidRequest", "Service has already been destroyed")

Installed == DOMAIN package_data

SetEntry(p, field, v) ==
    [package_data EXCEPT ![p] = [package_data[p] EXCEPT ![field] = v]]

SetMain(p, m) == package_data' = [package_data EXCEPT ![p].main = m]

NewEntry(v) ==
    [version |-> v, main |-> Stopped,
     current_dependencies |-> EmptyMap, current_dependents |-> EmptyMap,
     service_interfaces |-> EmptyMap]

------------------------------------------------------------------------------
(* Dependency requirements (effect schema) and CurrentDependencyInfo (db) *)

ExistsReq(id, vs, url) ==
    [kind |-> "exists", id |-> id, version_spec |-> vs, registry_url |-> url]

RunningReq(id, hcs, vs, url) ==
    [kind |-> "running", id |-> id, health_checks |-> hcs,
     version_spec |-> vs, registry_url |-> url]

KindExists == [tag |-> "Exists"]

KindRunning(hcs) == [tag |-> "Running", health_checks |-> hcs]

\* Start-time dependency resolution (4.5): is the requirement `info` on
\* package `d` met in the current database?
DepSatisfied(d, info) ==
    /\ d \in Installed
    /\ Satisfies(package_data[d].version, info.version_spec)
    /\ info.kind.tag = "Running" =>
          /\ package_data[d].main.tag = "Running"
          /\ \A hc \in info.kind.health_checks :
                /\ hc \in DOMAIN package_data[d].main.health
                /\ package_data[d].main.health[hc] = "Passing"

Unsatisfied(p) ==
    {d \in DOMAIN package_data[p].current_dependencies :
        ~DepSatisfied(d, package_data[p].current_dependencies[d])}

------------------------------------------------------------------------------
(* Supervisor: install / remove *)

Install(p, v) ==
    /\ p \notin Installed /\ p \notin services /\ p \notin seeds
    /\ package_data' = MapPut(package_data, p, NewEntry(v))
    /\ services' = services \cup {p}
    /\ seeds' = seeds \cup {p}
    /\ hist' = [hist EXCEPT !.ever_starting = @ \ {p}, !.last_deps[p] = {},
                             !.last_set[p] = {}, !.exposed[p] = {}]
    /\ result' = NoResult
    /\ UNCHANGED <<package_stores, ci>>
    /\ UNCHANGED extVars

\* remove: the supervisor leaves the ServiceMap first ...
RemoveBegin(p) ==
    /\ p \in services /\ p \in Installed
    /\ package_data[p].main.tag = "Stopped"
    /\ services' = services \ {p}
    /\ result' = Ok("remove", p, "none")
    /\ UNCHANGED <<dbVars, seeds, ci, hist>>
    /\ UNCHANGED extVars

\* ... then the actor seed is dropped and the entry leaves the database,
\* in either order.
DropSeed(p) ==
    /\ p \in seeds /\ p \notin services
    /\ seeds' = seeds \ {p}
    /\ result' = NoResult
    /\ UNCHANGED <<dbVars, services, ci, hist>>
    /\ UNCHANGED extVars

RemoveEntry(p) ==
    /\ p \in Installed /\ p \notin services
    /\ package_data' = MapDel(package_data, p)
    /\ package_stores' = MapDel(package_stores, p)
    /\ hist' = [hist EXCEPT !.last_set[p] = {}]
    /\ result' = NoResult
    /\ UNCHANGED <<services, seeds, ci>>
    /\ UNCHANGED extVars

------------------------------------------------------------------------------
(* Supervisor: start / stop / restart / backup *)

\* Service::start: resolve dependencies, then Starting
ServiceStart(id) ==
    IF Unsatisfied(id) # {}
    THEN /\ \E d \in Unsatisfied(id) :
               result' = Err("start", id, "DependencyFailure", d)
         /\ UNCHANGED <<package_data, hist>>
    ELSE /\ SetMain(id, Plain("Starting"))
         /\ hist' = [hist EXCEPT !.ever_starting = @ \cup {id}]
         /\ result' = Ok("start", id, "none")

\* control::start with the `?` after .start().await dropped: the error of
\* the supervisor is swallowed and Ok(()) returned
start_swallow(id) ==
    /\ IF id \notin services
       THEN /\ result' = Err("start", id, "NotFound", id)
            /\ UNCHANGED <<package_data, hist>>
       ELSE /\ result' = Ok("start", id, "none")
            /\ IF Unsatisfied(id) # {}
               THEN UNCHANGED <<package_data, hist>>
               ELSE /\ SetMain(id, Plain("Starting"))
                    /\ hist' = [hist EXCEPT !.ever_starting = @ \cup {id}]
    /\ UNCHANGED <<package_stores, services, seeds, ci>>
    /\ UNCHANGED extVars

\* control::start
start(id) ==
    /\ IF id \notin services
       THEN /\ result' = Err("start", id, "NotFound", id)
            /\ UNCHANGED <<package_data, hist>>
       ELSE ServiceStart(id)
    /\ UNCHANGED <<package_stores, services, seeds, ci>>
    /\ UNCHANGED extVars

\* the container is up: Starting -> Running, started_at recorded
StartComplete(p) ==
    /\ p \in Installed /\ p \in services
    /\ package_data[p].main.tag \in {"Starting", "Restarting"}
    /\ SetMain(p, RunningStatus(EmptyMap))
    /\ result' = NoResult
    /\ UNCHANGED <<package_stores, services, seeds, ci, hist>>
    /\ UNCHANGED extVars

\* Service::stop: only Running may stop
ServiceStop(id) ==
    IF package_data[id].main.tag = "Running"
    THEN /\ SetMain(id, Plain("Stopping"))
         /\ result' = Ok("stop", id, "none")
    ELSE /\ result' = Err("stop", id, "InvalidTransition", id)
         /\ UNCHANGED package_data

\* control::stop
stop(id) ==
    /\ IF id \notin services
       THEN /\ result' = Err("stop", id, "InvalidRequest", "Manager not found")
            /\ UNCHANGED package_data
       ELSE ServiceStop(id)
    /\ UNCHANGED <<package_stores, services, seeds, ci, hist>>
    /\ UNCHANGED extVars

StopComplete(p) ==
    /\ p \in Installed
    /\ package_data[p].main.tag = "Stopping"
    /\ SetMain(p, Stopped)
    /\ result' = NoResult
    /\ UNCHANGED <<package_stores, services, seeds, ci, hist>>
    /\ UNCHANGED extVars

\* Service::restart: Running -> Restarting (-> Running by StartComplete)
ServiceRestart(id) ==
    IF package_data[id].main.tag = "Running"
    THEN /\ SetMain(id, Plain("Restarting"))
         /\ result' = Ok("restart", id, "none")
    ELSE /\ result' = Err("restart", id, "InvalidTransition", id)
         /\ UNCHANGED package_data

\* control::restart
restart(id) ==
    /\ IF id \notin services
       THEN /\ result' = Err("restart", id, "InvalidRequest", "Manager not found")
            /\ UNCHANGED package_data
       ELSE ServiceRestart(id)
    /\ UNCHANGED <<package_stores, services, seeds, ci, hist>>
    /\ UNCHANGED extVars

\* backup: Installed/* -> BackingUp, keeping the health map of a Running main
BackupBegin(p) ==
    /\ p \in Installed /\ p \in services
    /\ package_data[p].main.tag # "BackingUp"
    /\ SetMain(p, BackingUpStatus(package_data[p].main.health))
    /\ result' = Ok("backup", p, "none")
    /\ UNCHANGED <<package_stores, services, seeds, ci, hist>>
    /\ UNCHANGED extVars

\* backup done: always back to Stopped
BackupComplete(p) ==
    /\ p \in Installed
    /\ package_data[p].main.tag = "BackingUp"
    /\ SetMain(p, Stopped)
    /\ result' = NoResult
    /\ UNCHANGED <<package_stores, services, seeds, ci, hist>>
    /\ UNCHANGED extVars


------------------------------------------------------------------------------
(* Effect handlers: status and health *)

\* ServiceActorSeed::started / stopped: the guest declares its main status
seed_started(p) ==
    IF p \in Installed
    THEN SetMain(p, RunningStatus(EmptyMap))
    ELSE UNCHANGED package_data

seed_stopped(p) ==
    IF p \in Installed THEN SetMain(p, Stopped) ELSE UNCHANGED package_data

\* set_main_status with the two match arms exchanged
set_main_status_swapped(p, status) ==
    /\ IF ~deref(p)
       THEN /\ result' = Destroyed("setMainStatus", p)
            /\ UNCHANGED <<package_data, hist>>
       ELSE /\ IF status = "running" THEN seed_stopped(p) ELSE seed_started(p)
            /\ result' = Ok("setMainStatus", p, status)
            /\ UNCHANGED hist
    /\ UNCHANGED <<package_stores, services, seeds, ci>>
    /\ UNCHANGED extVars

set_main_status(p, status) ==
    /\ IF ~deref(p)
       THEN /\ result' = Destroyed("setMainStatus", p)
            /\ UNCHANGED <<package_data, hist>>
       ELSE /\ IF status = "running" THEN seed_started(p) ELSE seed_stopped(p)
            /\ result' = Ok("setMainStatus", p, status)
            /\ UNCHANGED hist
    /\ UNCHANGED <<package_stores, services, seeds, ci>>
    /\ UNCHANGED extVars

\* the closure with the BackingUp arm of the match forgotten
HealthInsertRunningOnly(main, id, r) ==
    IF main.tag = "Running"
    THEN [main EXCEPT !.health = MapPut(@, id, r)]
    ELSE main

\* the closure given to as_main_mut().mutate in set_health
HealthInsert(main, id, r) ==
    IF main.tag \in {"Running", "BackingUp"}
    THEN [main EXCEPT !.health = MapPut(@, id, r)]
    ELSE main

set_health(p, id, r) ==
    /\ IF ~deref(p)
       THEN /\ result' = Destroyed("setHealth", p)
            /\ UNCHANGED package_data
       ELSE IF p \notin Installed
       THEN /\ result' = Err("setHealth", p, "NotFound", p)
            /\ UNCHANGED package_data
       ELSE /\ SetMain(p, HealthInsert(package_data[p].main, id, r))
            /\ result' = Ok("setHealth", p, <<id, r>>)
    /\ UNCHANGED <<package_stores, services, seeds, ci, hist>>
    /\ UNCHANGED extVars

------------------------------------------------------------------------------
(* Effect handlers that never look at the seed *)

get_ssl_certificate(p) ==
    /\ result' = Ok("getSslCertificate", p, <<"fake", "fake", "fake">>)
    /\ UNCHANGED <<dbVars, services, seeds, ci, hist>>
    /\ UNCHANGED extVars

get_ssl_key(p) ==
    /\ result' = Ok("getSslKey", p, "fake")
    /\ UNCHANGED <<dbVars, services, seeds, ci, hist>>
    /\ UNCHANGED extVars

\* exists(package_id)
exists(p, q) ==
    /\ result' = IF ~deref(p) THEN Destroyed("exists", p)
                 ELSE Ok("exists", p, q \in Installed)
    /\ UNCHANGED <<dbVars, services, seeds, ci, hist>>
    /\ UNCHANGED extVars


------------------------------------------------------------------------------
(* Effect handlers: setDependencies / getDependencies *)

\* One turn of the loop in set_dependencies: a DependencyRequirement becomes
\* a CurrentDependencyInfo.  `cfg` is what the dependency's config verifier
\* answers ("sat" / "unsat"); it is consulted only when the dependency has a
\* supervisor.  The icon and title (presentation only) are not modelled.
ToInfo(req, cfg) ==
    [kind |-> IF req.kind = "exists" THEN KindExists
              ELSE KindRunning(req.health_checks),
     registry_url |-> req.registry_url,
     version_spec |-> req.version_spec,
     config_satisfied |-> IF req.id \in services THEN cfg = "sat" ELSE TRUE]

\* the loop with `deps.entry(dep_id).or_insert(info)`: the first requirement
\* naming an id is kept
RECURSIVE BuildDepsKeepFirst(_, _, _)
BuildDepsKeepFirst(D, cfg, acc) ==
    IF D = <<>> THEN acc
    ELSE BuildDepsKeepFirst(Tail(D), cfg,
            IF Head(D).id \in DOMAIN acc THEN acc
            ELSE MapPut(acc, Head(D).id, ToInfo(Head(D), cfg)))

\* deps.insert(dep_id, info) for every element of `dependencies`, in order
RECURSIVE BuildDeps(_, _, _)
BuildDeps(D, cfg, acc) ==
    IF D = <<>> THEN acc
    ELSE BuildDeps(Tail(D), cfg, MapPut(acc, Head(D).id, ToInfo(Head(D), cfg)))

\* dependency_config(..)/get_config(..) return an error
ConfigFails(D, cfg) ==
    cfg = "err" /\ \E i \in 1..Len(D) : D[i].id \in services

\* what the claim requires of a successful setDependencies(D): for each id the
\* last requirement naming it
LastReqs(D) ==
    {D[i] : i \in {j \in 1..Len(D) : \A k \in (j+1)..Len(D) : D[k].id # D[j].id}}

set_dependencies(p, D, cfg) ==
    /\ IF ~deref(p)
       THEN /\ result' = Destroyed("setDependencies", p)
            /\ UNCHANGED <<package_data, hist>>
       ELSE IF p \notin services
       THEN /\ result' = Err("setDependencies", p, "NotFound", p)
            /\ UNCHANGED <<package_data, hist>>
       ELSE IF ConfigFails(D, cfg)
       THEN /\ result' = Err("setDependencies", p, "ConfigFailure", "none")
            /\ UNCHANGED <<package_data, hist>>
       ELSE IF p \notin Installed
       THEN /\ result' = Err("setDependencies", p, "NotFound", p)
            /\ UNCHANGED <<package_data, hist>>
       ELSE /\ package_data' =
                  SetEntry(p, "current_dependencies", BuildDeps(D, cfg, EmptyMap))
            /\ hist' = [hist EXCEPT !.last_deps[p] = {LastReqs(D)}]
            /\ result' = Ok("setDependencies", p, Len(D))
    /\ UNCHANGED <<package_stores, services, seeds, ci>>
    /\ UNCHANGED extVars

\* the BTreeMap iterates in key order
IdOrder == <<"a", "b">>

\* the Running arm built with an empty health_checks set
ToReqNoChecks(id, info) ==
    IF info.kind.tag = "Exists"
    THEN ExistsReq(id, info.version_spec, info.registry_url)
    ELSE RunningReq(id, {}, info.version_spec, info.registry_url)

ToReq(id, info) ==
    IF info.kind.tag = "Exists"
    THEN ExistsReq(id, info.version_spec, info.registry_url)
    ELSE RunningReq(id, info.kind.health_checks, info.version_spec,
                    info.registry_url)

RECURSIVE ReqList(_, _)
ReqList(deps, i) ==
    IF i > Len(IdOrder) THEN <<>>
    ELSE (IF IdOrder[i] \in DOMAIN deps
          THEN <<ToReq(IdOrder[i], deps[IdOrder[i]])>> ELSE <<>>)
         \o ReqList(deps, i + 1)

\* the value get_dependencies returns for an installed caller
GetDependenciesValue(p) == ReqList(package_data[p].current_dependencies, 1)

get_dependencies(p) ==
    /\ result' = IF ~deref(p) THEN Destroyed("getDependencies", p)
                 ELSE IF p \notin Installed
                 THEN Err("getDependencies", p, "NotFound", p)
                 ELSE Ok("getDependencies", p, GetDependenciesValue(p))
    /\ UNCHANGED <<dbVars, services, seeds, ci, hist>>
    /\ UNCHANGED extVars

------------------------------------------------------------------------------
(* Effect handlers: the private store *)

\* serde_json Value: null, a number, or an object (arrays are not modelled)
Null == [t |-> "null"]

Num(n) == [t |-> "num", v |-> n]

Obj(m) == [t |-> "obj", m |-> m]

EmptyObj == Obj(EmptyMap)

\* JsonPointer::get: the value at `path`, as a set with at most one element
RECURSIVE PtrGet(_, _)
PtrGet(doc, path) ==
    IF path = <<>> THEN {doc}
    ELSE IF doc.t # "obj" THEN {}
    ELSE IF Head(path) \notin DOMAIN doc.m THEN {}
    ELSE PtrGet(doc.m[Head(path)], Tail(path))

\* JsonPointer::set(doc, value, recursive = true): the new document, or {}
\* when a segment would have to index into null or a number.  A missing
\* intermediate key is created as an empty object.
RECURSIVE PtrSet(_, _, _)
PtrSet(doc, path, value) ==
    IF path = <<>> THEN {value}
    ELSE IF doc.t # "obj" THEN {}
    ELSE IF Tail(path) = <<>> THEN {Obj(MapPut(doc.m, Head(path), value))}
    ELSE LET child == IF Head(path) \in DOMAIN doc.m
                      THEN doc.m[Head(path)] ELSE EmptyObj
         IN  {Obj(MapPut(doc.m, Head(path), c)) :
                 c \in PtrSet(child, Tail(path), value)}

\* package_id.unwrap_or(context.id)
StoreTarget(p, package_id) == IF package_id = "none" THEN p ELSE package_id

GetRequest(package_id, path, out) ==
    [package_id |-> package_id, path |-> path, out |-> out]

get_store(p, package_id, path) ==
    /\ result' =
          IF ~deref(p) THEN Destroyed("getStore", p)
          ELSE IF StoreTarget(p, package_id) \notin DOMAIN package_stores
          THEN Err("getStore", p, "NotFound", GetRequest(package_id, path, {}))
          ELSE IF PtrGet(package_stores[StoreTarget(p, package_id)], path) = {}
          THEN Err("getStore", p, "NotFound", GetRequest(package_id, path, {}))
          ELSE Ok("getStore", p, GetRequest(package_id, path,
                     PtrGet(package_stores[StoreTarget(p, package_id)], path)))
    /\ UNCHANGED <<dbVars, services, seeds, ci, hist>>
    /\ UNCHANGED extVars

\* upsert(&package_id, || json!({})), then a null store becomes {}
StoreForWrite(p) ==
    IF p \notin DOMAIN package_stores THEN EmptyObj
    ELSE IF package_stores[p] = Null THEN EmptyObj
    ELSE package_stores[p]

SetRequest(path, value) == [path |-> path, value |-> value]

\* set_store with model.ser(&value): the value is written over the whole store
set_store_root(p, path, value) ==
    /\ IF ~deref(p)
       THEN /\ result' = Destroyed("setStore", p)
            /\ UNCHANGED <<package_stores, hist>>
       ELSE IF PtrSet(StoreForWrite(p), path, value) = {}
       THEN /\ result' = Err("setStore", p, "ParseDbField", SetRequest(path, value))
            /\ UNCHANGED <<package_stores, hist>>
       ELSE /\ package_stores' = MapPut(package_stores, p, value)
            /\ hist' = [hist EXCEPT !.last_set[p] = {SetRequest(path, value)}]
            /\ result' = Ok("setStore", p, SetRequest(path, value))
    /\ UNCHANGED <<package_data, services, seeds, ci>>
    /\ UNCHANGED extVars

\* set_store with the serialisation done one level up: package_stores is
\* replaced by a map holding the caller's store alone
set_store_alone(p, path, value) ==
    /\ IF ~deref(p)
       THEN /\ result' = Destroyed("setStore", p)
            /\ UNCHANGED <<package_stores, hist>>
       ELSE IF PtrSet(StoreForWrite(p), path, value) = {}
       THEN /\ result' = Err("setStore", p, "ParseDbField", SetRequest(path, value))
            /\ UNCHANGED <<package_stores, hist>>
       ELSE /\ \E doc \in PtrSet(StoreForWrite(p), path, value) :
                  package_stores' = MapPut(EmptyMap, p, doc)
            /\ hist' = [hist EXCEPT !.last_set[p] = {SetRequest(path, value)}]
            /\ result' = Ok("setStore", p, SetRequest(path, value))
    /\ UNCHANGED <<package_data, services, seeds, ci>>
    /\ UNCHANGED extVars

\* set_store that builds the document from json!({}) instead of the stored
\* one: what the caller's other writes left is not read
set_store_fresh(p, path, value) ==
    /\ IF ~deref(p)
       THEN /\ result' = Destroyed("setStore", p)
            /\ UNCHANGED <<package_stores, hist>>
       ELSE IF PtrSet(StoreForWrite(p), path, value) = {}
       THEN /\ result' = Err("setStore", p, "ParseDbField", SetRequest(path, value))
            /\ UNCHANGED <<package_stores, hist>>
       ELSE /\ \E doc \in PtrSet(EmptyObj, path, value) :
                  package_stores' = MapPut(package_stores, p, doc)
            /\ hist' = [hist EXCEPT !.last_set[p] = {SetRequest(path, value)}]
            /\ result' = Ok("setStore", p, SetRequest(path, value))
    /\ UNCHANGED <<package_data, services, seeds, ci>>
    /\ UNCHANGED extVars

\* set_store whose failed mutate still commits the json!({}) of the upsert
set_store_half(p, path, value) ==
    /\ IF ~deref(p)
       THEN /\ result' = Destroyed("setStore", p)
            /\ UNCHANGED <<package_stores, hist>>
       ELSE IF PtrSet(StoreForWrite(p), path, value) = {}
       THEN /\ result' = Err("setStore", p, "ParseDbField", SetRequest(path, value))
            /\ package_stores' = MapPut(package_stores, p, EmptyObj)
            /\ UNCHANGED hist
       ELSE /\ \E doc \in PtrSet(StoreForWrite(p), path, value) :
                  package_stores' = MapPut(package_stores, p, doc)
            /\ hist' = [hist EXCEPT !.last_set[p] = {SetRequest(path, value)}]
            /\ result' = Ok("setStore", p, SetRequest(path, value))
    /\ UNCHANGED <<package_data, services, seeds, ci>>
    /\ UNCHANGED extVars

\* The whole closure runs in one db.mutate: when path.set fails the upsert
\* is discarded with it.
set_store(p, path, value) ==
    /\ IF ~deref(p)
       THEN /\ result' = Destroyed("setStore", p)
            /\ UNCHANGED <<package_stores, hist>>
       ELSE IF PtrSet(StoreForWrite(p), path, value) = {}
       THEN /\ result' = Err("setStore", p, "ParseDbField", SetRequest(path, value))
            /\ UNCHANGED <<package_stores, hist>>
       ELSE /\ \E doc \in PtrSet(StoreForWrite(p), path, value) :
                  package_stores' = MapPut(package_stores, p, doc)
            /\ hist' = [hist EXCEPT !.last_set[p] = {SetRequest(path, value)}]
            /\ result' = Ok("setStore", p, SetRequest(path, value))
    /\ UNCHANGED <<package_data, services, seeds, ci>>
    /\ UNCHANGED extVars

\* expose_for_dependents: returns Ok(()) and stores nothing; the paths are
\* remembered in the history only
expose_for_dependents(p, paths) ==
    /\ result' = Ok("exposeForDependents", p, "none")
    /\ hist' = [hist EXCEPT !.exposed[p] = @ \cup paths]
    /\ UNCHANGED <<dbVars, services, seeds, ci>>
    /\ UNCHANGED extVars

------------------------------------------------------------------------------
(* MerkleArchive: entries, hashes, signatures *)

Good(v) == [ok |-> TRUE, v |-> v]

Bad(kind) == [ok |-> FALSE, kind |-> kind]

\* blake3 and SHA-512 are taken as collision free: a digest is its preimage
Blake3File(bytes) == [file |-> bytes]

Blake3Toc(toc) == [dir |-> toc]

\* Sha512::new_with_prefix(sighash).chain_update(size)
Prehash(sighash, size) == <<sighash, size>>

VerifyingKey(k) == [pub |-> k]

\* Ed25519ph with a context: a signature verifies under exactly the key,
\* the message and the context it was made with
sign_prehashed(k, msg, context) ==
    [by |-> VerifyingKey(k), msg |-> msg, context |-> context]

verify_prehashed_strict(pubkey, msg, context, signature) ==
    signature = [by |-> pubkey, msg |-> msg, context |-> context]

\* enum Signer
SignerKey(k, context) == [t |-> "Signer", key |-> k, context |-> context]

Signed(pubkey, signature, max_size, context) ==
    [t |-> "Signed", pubkey |-> pubkey, signature |-> signature,
     max_size |-> max_size, context |-> context]

\* enum EntryContents
MissingContents == [t |-> "Missing"]

FileContents(bytes) == [t |-> "File", bytes |-> bytes]

\* DirectoryContents: an ordered list of [name, entry]
DirectoryContents(entries) == [t |-> "Directory", entries |-> entries]

Named(name, entry) == [name |-> name, entry |-> entry]

\* Entry::new: no hash yet
EntryNew(contents) == [hash |-> {}, contents |-> contents]

\* Entry as read from a header: the hash is Some((hash, size))
EntryHashed(hashpair, contents) == [hash |-> {hashpair}, contents |-> contents]

\* EntryContents::type_id
type_id(contents) ==
    IF contents.t = "Missing" THEN 0
    ELSE IF contents.t = "File" THEN 1
    ELSE 2

\* EntryContents::header_size: the type byte, then position and length for a
\* file or a directory
ContentsHeaderSize(contents) ==
    1 + (IF contents.t = "Missing" THEN 0 ELSE 8 + 8)

\* Entry::header_size
EntryHeaderSize(e) == 32 + 8 + ContentsHeaderSize(e.contents)

\* DirectoryContents::toc_size: per entry a length-prefixed one-letter name
\* and the entry header
RECURSIVE toc_size(_)
toc_size(entries) ==
    IF entries = <<>> THEN 0
    ELSE 1 + 1 + EntryHeaderSize(Head(entries).entry) + toc_size(Tail(entries))

RECURSIVE ContentsHash(_)
RECURSIVE to_missing(_)
RECURSIVE SigToc(_)

\* the table of contents the digest is taken over: every entry as its
\* Missing stub, in directory order; fails if some entry cannot be hashed
SigToc(entries) ==
    IF entries = <<>> THEN Good(<<>>)
    ELSE LET m == to_missing(Head(entries).entry)
             rest == SigToc(Tail(entries))
         IN  IF ~m.ok THEN m
             ELSE IF ~rest.ok THEN rest
             ELSE Good(<<[name |-> Head(entries).name,
                          hashpair |-> CHOOSE h \in m.v.hash : TRUE]>>
                       \o rest.v)

\* DirectoryContents::sighash
sighash(entries) ==
    LET t == SigToc(entries) IN
    IF t.ok THEN Good(Blake3Toc(t.v)) ELSE t

\* EntryContents::hash
ContentsHash(contents) ==
    IF contents.t = "Missing" THEN Bad("Pack")
    ELSE IF contents.t = "File"
    THEN Good(<<Blake3File(contents.bytes), Len(contents.bytes)>>)
    ELSE LET sh == sighash(contents.entries) IN
         IF sh.ok THEN Good(<<sh.v, toc_size(contents.entries)>>) ELSE sh

\* Entry::to_missing
to_missing(e) ==
    IF e.hash # {} THEN Good([hash |-> e.hash, contents |-> MissingContents])
    ELSE LET h == ContentsHash(e.contents) IN
         IF h.ok THEN Good([hash |-> {h.v}, contents |-> MissingContents])
         ELSE h

\* the (hash, size) Entry::serialize_header writes: the retained pair, or
\* the computed one
HeaderHash(e) ==
    IF e.hash # {} THEN Good(CHOOSE h \in e.hash : TRUE)
    ELSE ContentsHash(e.contents)

\* FileContents.to_vec(hash): the bytes, checked against a retained hash
FileToVec(contents, hash) ==
    IF hash # {} /\ hash # {<<Blake3File(contents.bytes), Len(contents.bytes)>>}
    THEN Bad("ParseS9pk")
    ELSE Good(contents.bytes)

\* read_file_to_vec with a Missing entry read as an empty file
read_file_to_vec_empty(e) ==
    IF e.contents.t = "File" THEN FileToVec(e.contents, e.hash)
    ELSE IF e.contents.t = "Directory" THEN Bad("ParseS9pk")
    ELSE Good(<<>>)

\* Entry::read_file_to_vec
read_file_to_vec(e) ==
    IF e.contents.t = "File" THEN FileToVec(e.contents, e.hash)
    ELSE IF e.contents.t = "Directory" THEN Bad("ParseS9pk")
    ELSE Bad("ParseS9pk")

RECURSIVE SerToc(_, _)

\* Entry::serialize_header and the body the write queue emits for it: hash,
\* size, type id, then the file body or the child table.  With `verify` a
\* body is hashed while written and compared with the entry's hash.
SerEntry(name, e, verify) ==
    LET h == HeaderHash(e) IN
    IF ~h.ok THEN h
    ELSE IF e.contents.t = "Missing"
    THEN Good([name |-> name, hash |-> h.v[1], size |-> h.v[2],
               type |-> type_id(e.contents)])
    ELSE IF e.contents.t = "File"
    THEN IF verify /\ h.v # <<Blake3File(e.contents.bytes), Len(e.contents.bytes)>>
         THEN Bad("Pack")
         ELSE Good([name |-> name, hash |-> h.v[1], size |-> h.v[2],
                    type |-> type_id(e.contents), body |-> e.contents.bytes])
    ELSE LET t == SerToc(e.contents.entries, verify) IN
         IF ~t.ok THEN t
         ELSE Good([name |-> name, hash |-> h.v[1], size |-> h.v[2],
                    type |-> type_id(e.contents), toc |-> t.v])

\* DirectoryContents::serialize_toc
SerToc(entries, verify) ==
    IF entries = <<>> THEN Good(<<>>)
    ELSE LET first == SerEntry(Head(entries).name, Head(entries).entry, verify)
             rest == SerToc(Tail(entries), verify)
         IN  IF ~first.ok THEN first
             ELSE IF ~rest.ok THEN rest
             ELSE Good(<<first.v>> \o rest.v)

\* the (pubkey, signature, max_size) MerkleArchive::serialize writes
SignatureOf(signer, sh, size) ==
    IF signer.t = "Signed"
    THEN [pubkey |-> signer.pubkey, signature |-> signer.signature,
          max_size |-> signer.max_size]
    ELSE [pubkey |-> VerifyingKey(signer.key),
          signature |-> sign_prehashed(signer.key, Prehash(sh, size),
                                       signer.context),
          max_size |-> size]

\* serialize with the digest signed without the size: chain_update dropped
serialize_unsized(A, verify) ==
    LET sh == sighash(A.contents)
        t == SerToc(A.contents, verify)
    IN  IF ~sh.ok THEN sh
        ELSE IF ~t.ok THEN t
        ELSE LET sig == SignatureOf(A.signer, sh.v, 0) IN
             Good([pubkey |-> sig.pubkey, signature |-> sig.signature,
                   sighash |-> sh.v, max_size |-> toc_size(A.contents),
                   toc |-> t.v])

\* MerkleArchive::serialize
serialize(A, verify) ==
    LET sh == sighash(A.contents)
        t == SerToc(A.contents, verify)
    IN  IF ~sh.ok THEN sh
        ELSE IF ~t.ok THEN t
        ELSE LET sig == SignatureOf(A.signer, sh.v, toc_size(A.contents)) IN
             Good([pubkey |-> sig.pubkey, signature |-> sig.signature,
                   sighash |-> sh.v, max_size |-> sig.max_size,
                   toc |-> t.v])

RECURSIVE DeToc(_, _)

\* EntryContents::deserialize
DeContents(w) ==
    IF w.type = 0 THEN Good(MissingContents)
    ELSE IF w.type = 1 THEN Good(FileContents(w.body))
    ELSE IF w.type = 2
    THEN LET d == DeToc(w.toc, <<w.hash, w.size>>) IN
         IF d.ok THEN Good(DirectoryContents(d.v)) ELSE d
    ELSE Bad("ParseS9pk")

\* Entry::deserialize
DeEntry(w) ==
    LET c == DeContents(w) IN
    IF c.ok THEN Good(EntryHashed(<<w.hash, w.size>>, c.v)) ELSE c

RECURSIVE DeEntries(_)
DeEntries(toc) ==
    IF toc = <<>> THEN Good(<<>>)
    ELSE LET first == DeEntry(Head(toc))
             rest == DeEntries(Tail(toc))
         IN  IF ~first.ok THEN first
             ELSE IF ~rest.ok THEN rest
             ELSE Good(<<Named(Head(toc).name, first.v)>> \o rest.v)

\* DirectoryContents::deserialize(source, header, (sighash, max_size)): the
\* table must fit in max_size and hash to sighash
DeToc(toc, hashpair) ==
    LET d == DeEntries(toc) IN
    IF ~d.ok THEN d
    ELSE IF toc_size(d.v) > hashpair[2] THEN Bad("ParseS9pk")
    ELSE IF sighash(d.v) # Good(hashpair[1]) THEN Bad("ParseS9pk")
    ELSE d

\* deserialize with the directory parsed first and the signature looked at
\* only for a non-empty archive
deserialize_lazy(wire, context) ==
    LET d == DeToc(wire.toc, <<wire.sighash, wire.max_size>>) IN
    IF ~d.ok THEN d
    ELSE IF d.v # <<>>
            /\ ~verify_prehashed_strict(wire.pubkey,
                    Prehash(wire.sighash, wire.max_size), context,
                    wire.signature)
    THEN Bad("InvalidSignature")
    ELSE Good([signer |-> Signed(wire.pubkey, wire.signature, wire.max_size,
                                 context),
               contents |-> d.v])

\* MerkleArchive::deserialize
deserialize(wire, context) ==
    IF ~verify_prehashed_strict(wire.pubkey,
            Prehash(wire.sighash, wire.max_size), context, wire.signature)
    THEN Bad("InvalidSignature")
    ELSE LET d == DeToc(wire.toc, <<wire.sighash, wire.max_size>>) IN
         IF ~d.ok THEN d
         ELSE Good([signer |-> Signed(wire.pubkey, wire.signature,
                                      wire.max_size, context),
                    contents |-> d.v])

\* MerkleArchive::new
MerkleArchiveNew(entries, key, context) ==
    [signer |-> SignerKey(key, context), contents |-> entries]

\* MerkleArchive::signer
signer(A) ==
    IF A.signer.t = "Signed" THEN A.signer.pubkey
    ELSE VerifyingKey(A.signer.key)

RECURSIVE DirFilter(_, _, _)
RECURSIVE EntryFilter(_, _, _)

\* Entry::filter going through as_contents_mut(), which forgets the hash
EntryFilterForgets(e, prefix, keep) ==
    IF e.contents.t = "Directory"
    THEN LET d == DirFilter(e.contents.entries, prefix, keep) IN
         IF d.ok THEN Good([hash |-> {}, contents |-> DirectoryContents(d.v)])
         ELSE d
    ELSE Good(e)

\* Entry::filter: a directory filters its children, the entry's own hash is
\* left as it is
EntryFilter(e, prefix, keep) ==
    IF e.contents.t = "Directory"
    THEN LET d == DirFilter(e.contents.entries, prefix, keep) IN
         IF d.ok THEN Good([e EXCEPT !.contents = DirectoryContents(d.v)])
         ELSE d
    ELSE Good(e)

\* DirectoryContents::filter: an entry whose path the predicate rejects
\* becomes its Missing stub, the others are filtered in turn.  `keep` is the
\* set of paths the predicate accepts.
DirFilter(entries, prefix, keep) ==
    IF entries = <<>> THEN Good(<<>>)
    ELSE LET path == prefix \o <<Head(entries).name>>
             first == IF path \in keep
                      THEN EntryFilter(Head(entries).entry, path, keep)
                      ELSE to_missing(Head(entries).entry)
             rest == DirFilter(Tail(entries), prefix, keep)
         IN  IF ~first.ok THEN first
             ELSE IF ~rest.ok THEN rest
             ELSE Good(<<Named(Head(entries).name, first.v)>> \o rest.v)

\* MerkleArchive::filter
filter(A, keep) ==
    LET d == DirFilter(A.contents, <<>>, keep) IN
    IF d.ok THEN Good([A EXCEPT !.contents = d.v]) ELSE d

\* DirectoryContents::get_path: the entry at a path, if there is one
RECURSIVE get_path(_, _)
get_path(entries, path) ==
    IF path = <<>> THEN {}
    ELSE LET hit == {i \in 1..Len(entries) : entries[i].name = Head(path)} IN
         IF hit = {} THEN {}
         ELSE LET e == entries[CHOOSE i \in hit : TRUE].entry IN
              IF Tail(path) = <<>> THEN {e}
              ELSE IF e.contents.t = "Directory"
              THEN get_path(e.contents.entries, Tail(path))
              ELSE {}

------------------------------------------------------------------------------
(* An archive in memory, its serialized image, and the calls made on them *)

nonArVars ==
    <<package_data, package_stores, services, seeds, ci, hist,
      persistent_container, fs, is_closed, sd, ioVars>>

ArNone == [orig |-> "none", cur |-> "none", wire |-> {}, from |-> "none"]

\* archive.serialize(&mut sink, verify)
ArSerialize(verify) ==
    /\ LET w == serialize(ar.cur, verify) IN
       IF w.ok
       THEN /\ ar' = [ar EXCEPT
                        !.wire = {w.v},
                        !.from = IF ar.cur = ar.orig /\ verify
                                 THEN "built" ELSE "other"]
            /\ result' = Ok("serialize", "none", [verify |-> verify])
       ELSE /\ result' = Err("serialize", "none", w.kind,
                             [verify |-> verify])
            /\ UNCHANGED ar
    /\ UNCHANGED nonArVars

\* MerkleArchive::deserialize(source, context, header) on the image
ArDeserialize(context) ==
    /\ \E w \in ar.wire :
          LET d == deserialize(w, context) IN
          IF d.ok
          THEN /\ ar' = [ar EXCEPT !.cur = d.v]
               /\ result' = Ok("deserialize", "none", [context |-> context])
          ELSE /\ result' = Err("deserialize", "none", d.kind,
                                [context |-> context])
               /\ UNCHANGED ar
    /\ UNCHANGED nonArVars

\* archive.filter(pred)
ArFilter(keep) ==
    /\ LET f == filter(ar.cur, keep) IN
       IF f.ok
       THEN /\ ar' = [ar EXCEPT !.cur = f.v]
            /\ result' = Ok("filter", "none", [keep |-> keep])
       ELSE /\ result' = Err("filter", "none", f.kind, [keep |-> keep])
            /\ UNCHANGED ar
    /\ UNCHANGED nonArVars

\* contents().get_path(path) and then entry.read_file_to_vec()
ArRead(path) ==
    /\ \E e \in get_path(ar.cur.contents, path) :
          LET r == read_file_to_vec(e) IN
          result' = IF r.ok
                    THEN Ok("read", "none", [path |-> path, bytes |-> r.v])
                    ELSE Err("read", "none", r.kind, [path |-> path])
    /\ UNCHANGED ar
    /\ UNCHANGED nonArVars

\* contents().get_path(path) and then the (hash, size) a header would carry
ArHash(path) ==
    /\ \E e \in get_path(ar.cur.contents, path) :
          LET h == HeaderHash(e) IN
          result' = IF h.ok
                    THEN Ok("hash", "none", [path |-> path, hashpair |-> h.v])
                    ELSE Err("hash", "none", h.kind, [path |-> path])
    /\ UNCHANGED ar
    /\ UNCHANGED nonArVars

------------------------------------------------------------------------------
(* Boot reconciliation: RpcContext::cleanup_and_initialize *)

\* compute_dependency_config_errs: the config_satisfied flags are recomputed
Recompute(deps, cfg) ==
    [d \in DOMAIN deps |->
        [deps[d] EXCEPT !.config_satisfied =
            IF d \in services THEN cfg = "sat" ELSE TRUE]]

\* let peek = self.db.peek(); for every package the dependencies are read
cleanup_peek(cfg) ==
    /\ ci.pc = "idle"
    /\ ci' = [pc |-> "peeked",
              snapshot |-> [q \in Installed |->
                  Recompute(package_data[q].current_dependencies, cfg)]]
    /\ result' = Ok("cleanupPeek", "none", "none")
    /\ UNCHANGED <<dbVars, services, seeds, hist>>
    /\ UNCHANGED extVars

\* self.db.mutate: every package of the snapshot that still exists gets its
\* current_dependencies written back
cleanup_mutate ==
    /\ ci.pc = "peeked"
    /\ package_data' =
          [q \in Installed |->
              IF q \in DOMAIN ci.snapshot
              THEN [package_data[q] EXCEPT
                        !.current_dependencies = ci.snapshot[q]]
              ELSE package_data[q]]
    /\ ci' = [pc |-> "done", snapshot |-> EmptyMap]
    /\ hist' = [hist EXCEPT !.last_deps =
                   [q \in PackageIds |->
                       IF q \in Installed /\ q \in DOMAIN ci.snapshot
                       THEN {} ELSE @[q]]]
    /\ result' = Ok("cleanupMutate", "none", "none")
    /\ UNCHANGED <<package_stores, services, seeds>>
    /\ UNCHANGED extVars


------------------------------------------------------------------------------
(* Bounds and input sets *)

MaxDeps == 2

MaxDepsStart == 1

\* requirements a guest may pass: every id, kind, health-check set
Reqs(ids, hcsets, sources) ==
    {ExistsReq(id, src[1], src[2]) : id \in ids, src \in sources}
    \cup {RunningReq(id, hcs, src[1], src[2]) :
            id \in ids, hcs \in hcsets, src \in sources}

\* (version_spec, registry_url) pairs
AllSources == VersionSpecs \X {"r1"}

SomeSources == {<<"*", "r1">>, <<"=2.0.0", "r2">>}

SeqsUpTo(S, n) == UNION {[1..k -> S] : k \in 0..n}

HistInit ==
    [ever_starting |-> {},
     last_deps |-> [q \in PackageIds |-> {}],
     last_set |-> [q \in PackageIds |-> {}],
     exposed |-> [q \in PackageIds |-> {}],
     boot |-> [q \in PackageIds |-> "none"]]

CiIdle == [pc |-> "idle", snapshot |-> EmptyMap]

\* PersistentContainer of every package: no overlay, container alive
PcInit ==
    [q \in PackageIds |->
        [overlays |-> {}, lxc_container |-> TRUE, net_service |-> EmptyMap]]

FsInit == [dirs |-> {}, mounted |-> {}]

\* RpcContext::shutdown has not been called
SdIdle == [pc |-> "idle", all |-> {}, left |-> {}]

\* TimeoutStream::timeout, in ticks of the model's clock
IdleWindow == 2

\* TimeoutStream::new at time 0: sleep: tokio::time::sleep(timeout)
TsInit == [now |-> 0, deadline |-> IdleWindow, last |-> 0, brisk |-> TRUE]

MaxTmp == 3

\* the random names TmpDir::new draws under /var/tmp/startos
TmpPaths == 1..MaxTmp

\* no TmpDir yet, /var/tmp/startos is empty
TmpInit ==
    [dirs |-> {}, live |-> {}, deleting |-> {}, tasks |-> {}, used |-> {},
     removed |-> [x \in TmpPaths |-> 0]]

MaxRequests == 2

\* the setup.attach / setup.execute requests in flight at once
SetupRequests == 1..MaxRequests

MaxBytes == 2

\* SetupContext: setup_status (None, Some(Ok(complete: false)) with the bytes
\* reported, Some(Ok(complete: true)), Some(Err)), setup_result (is it Some),
\* the requests waiting for the write lock, the tasks spawned so far and the
\* position of the last one, and whether disk.guid has been written
SuInit ==
    [status |-> "none", bytes |-> 0, result |-> FALSE,
     req |-> [r \in SetupRequests |-> [pc |-> "idle", kind |-> "none", source |-> "none"]],
     spawned |-> 0,
     task |-> [pc |-> "none", kind |-> "none", source |-> "none"],
     guid_file |-> FALSE]

MaxCapacity == 4

MaxAccepted == 3

MaxBuf == 2

\* ParallelBlake3Writer::new: the shared (buffer, wakers, shutdown) and Notify,
\* the spawned hasher task h about to run its loop body for the first time,
\* and the one task wr that owns the writer; accepted is the concatenation of
\* the prefixes poll_write has accepted, kept for the properties
Blake3WriterNew(capacity) ==
    [capacity |-> capacity,
     buffer |-> <<>>, wakers |-> 0, shutdown |-> FALSE,
     notified |-> "none",
     h |-> [pc |-> "lock", to_hash |-> <<>>, wakers |-> 0, shutdown |-> FALSE,
            absorbed |-> <<>>, api |-> "none"],
     wr |-> [op |-> "idle", at |-> "none", buf |-> <<>>, parked |-> FALSE,
             fin |-> FALSE],
     accepted |-> <<>>]

PwInit == Blake3WriterNew(1)

MaxTeeCapacity == 2

\* TeeWriter::new: both buffers empty; out1 and out2 are the bytes the inner
\* writers have taken, accepted the prefixes poll_write has reported
TeeWriterNew(capacity) ==
    [capacity |-> capacity, buffer1 |-> <<>>, buffer2 |-> <<>>,
     out1 |-> <<>>, out2 |-> <<>>, accepted |-> <<>>]

TeeInit == TeeWriterNew(1)

\* BackTrackingReader::new over a reader at the start of its stream; pos is
\* how many bytes the inner reader has delivered, next and mark the place of
\* the consumer in the stream and the place start_buffering was called at
BackTrackingReaderNew ==
    [buffer |-> <<>>, position |-> 0, buffering |-> FALSE,
     pos |-> 0, next |-> 0, mark |-> 0]

\* RpcContext::init: the watcher is spawned iff ntp_synced is false
NtpAfterInit(synced) ==
    [synced |-> synced, task |-> IF synced THEN "none" ELSE "check"]

IoInit ==
    /\ ts = TsInit
    /\ tmp = TmpInit
    /\ su = SuInit
    /\ pw = PwInit
    /\ tee = TeeInit
    /\ btr = BackTrackingReaderNew
    /\ ntp = NtpAfterInit(TRUE)

ExtInit ==
    /\ persistent_container = PcInit
    /\ fs = FsInit
    /\ is_closed = FALSE
    /\ sd = SdIdle
    /\ ar = ArNone
    /\ IoInit

------------------------------------------------------------------------------
(* Spec: the supervisor state machine with the start-time dependency gate *)

Init ==
    /\ package_data = EmptyMap
    /\ package_stores = EmptyMap
    /\ services = {}
    /\ seeds = {}
    /\ ci = CiIdle
    /\ result = NoResult
    /\ hist = HistInit
    /\ ExtInit

Next ==
    \/ \E p \in PackageIds, v \in Versions : Install(p, v)
    \/ \E p \in PackageIds : start(p)
    \/ \E p \in PackageIds : StartComplete(p)
    \/ \E p \in PackageIds : stop(p)
    \/ \E p \in PackageIds : StopComplete(p)
    \/ \E p \in PackageIds : restart(p)
    \/ \E p \in seeds, st \in {"running", "stopped"} : set_main_status(p, st)
    \/ \E p \in seeds, r \in SomeResults : set_health(p, "main", r)
    \/ \E D \in SeqsUpTo(Reqs({"a"}, {{"main"}}, AllSources), MaxDepsStart) :
          "b" \in seeds /\ set_dependencies("b", D, "sat")

Spec == Init /\ [][Next]_vars


------------------------------------------------------------------------------
(* SpecEffects: installed packages, their guests' effect calls, backup and   *)
(* removal (the seed of a removed package is eventually destroyed)           *)

InitEffects ==
    /\ package_data = [q \in PackageIds |-> NewEntry("1.0.0")]
    /\ package_stores = EmptyMap
    /\ services = PackageIds
    /\ seeds = PackageIds
    /\ ci = CiIdle
    /\ result = NoResult
    /\ hist = HistInit
    /\ ExtInit

NextEffects ==
    \/ \E p \in PackageIds : RemoveBegin(p)
    \/ \E p \in PackageIds : DropSeed(p)
    \/ \E p \in PackageIds : RemoveEntry(p)
    \/ \E p \in PackageIds : start(p)
    \/ \E p \in PackageIds : StartComplete(p)
    \/ \E p \in PackageIds : stop(p)
    \/ \E p \in PackageIds : StopComplete(p)
    \/ \E p \in PackageIds : BackupBegin(p)
    \/ \E p \in PackageIds : BackupComplete(p)
    \/ \E p \in PackageIds, st \in {"running", "stopped"} : set_main_status(p, st)
    \/ \E p \in PackageIds, id \in HealthCheckIds, r \in SomeResults :
          set_health(p, id, r)
    \/ \E p \in PackageIds : get_ssl_certificate(p)
    \/ \E p \in PackageIds : get_ssl_key(p)
    \/ \E p \in PackageIds, q \in PackageIds : exists(p, q)
    \/ \E p \in PackageIds : get_dependencies(p)

SpecEffects == InitEffects /\ [][NextEffects]_vars


------------------------------------------------------------------------------
(* Properties of Spec *)

MainOf(p) == package_data[p].main

DepsOf(p) == package_data[p].current_dependencies

\* C1: start(B) succeeds only if every declared dependency of B is satisfied
\* at that moment; with an unsatisfied dependency it fails with
\* DependencyFailure naming an unsatisfied dependency and leaves the database
\* (B's main status included) as it was.
C1_StartGate ==
    [][result'.op = "start" =>
         LET b == result'.caller IN
         /\ result'.kind = "Ok" =>
               /\ b \in Installed /\ b \in services
               /\ Unsatisfied(b) = {}
               /\ \A d \in DOMAIN DepsOf(b) : DepSatisfied(d, DepsOf(b)[d])
         /\ (b \in services /\ Unsatisfied(b) # {}) =>
               /\ result'.kind = "DependencyFailure"
               /\ result'.value \in Unsatisfied(b)
               /\ package_data' = package_data
      ]_vars

\* the scenario's last step: b requires a Running with `main` passing, and
\* b's start has succeeded
C1_Witness ==
    /\ result.op = "start" /\ result.kind = "Ok" /\ result.caller = "b"
    /\ "b" \in Installed /\ MainOf("b").tag = "Starting"
    /\ "a" \in DOMAIN DepsOf("b")
    /\ DepsOf("b")["a"].kind.tag = "Running"

EntersRunning(p) ==
    /\ p \in Installed /\ MainOf(p).tag # "Running"
    /\ package_data'[p].main.tag = "Running"

EntersStarting(p) ==
    /\ p \in Installed /\ MainOf(p).tag # "Starting"
    /\ package_data'[p].main.tag = "Starting"

------------------------------------------------------------------------------
(* Properties of SpecEffects *)

EffectOps ==
    {"setMainStatus", "setHealth", "getSslCertificate", "getSslKey", "exists",
     "getDependencies", "setDependencies", "getStore", "setStore",
     "exposeForDependents"}

\* C4 as stated: an effect called through a context whose seed has been
\* destroyed fails with InvalidRequest "Service has already been destroyed",
\* returns no data and changes no host state.
C4_DestroyedSeedFails ==
    [][(result'.op \in EffectOps /\ ~result'.alive) =>
          /\ result'.kind = "InvalidRequest"
          /\ result'.value = "Service has already been destroyed"
          /\ UNCHANGED <<package_data, package_stores, services, seeds>>
      ]_vars

\* C5: setHealth(id, result) by an installed caller succeeds in every main
\* status; it puts result under id in the health map iff the main status is
\* Running or BackingUp, never changes the status variant, and changes
\* nothing else in the database.
C5_SetHealth ==
    [][result'.op = "setHealth" =>
         LET p == result'.caller IN
         /\ (p \in seeds /\ p \in Installed) => result'.kind = "Ok"
         /\ result'.kind # "Ok" => package_data' = package_data
         /\ result'.kind = "Ok" =>
               LET id == result'.value[1]
                   r == result'.value[2]
                   m == MainOf(p)
                   n == package_data'[p].main
               IN  /\ n.tag = m.tag /\ n.started = m.started
                   /\ IF m.tag \in {"Running", "BackingUp"}
                      THEN n.health = MapPut(m.health, id, r)
                      ELSE n.health = m.health
                   /\ package_data' = [package_data EXCEPT ![p].main = n]
                   /\ package_stores' = package_stores
      ]_vars

\* a health result has been recorded during a backup
C5_Witness ==
    /\ result.op = "setHealth" /\ result.kind = "Ok"
    /\ result.caller \in Installed
    /\ MainOf(result.caller).tag = "BackingUp"
    /\ result.value[1] \in DOMAIN MainOf(result.caller).health


------------------------------------------------------------------------------
(* SpecDeps: setDependencies / getDependencies of installed packages *)

InitDeps == InitEffects

NextDeps ==
    \/ \E p \in PackageIds, cfg \in {"sat", "err"},
          D \in SeqsUpTo(Reqs(PackageIds, {{"main"}}, SomeSources), MaxDeps) :
          set_dependencies(p, D, cfg)
    \/ \E p \in PackageIds : get_dependencies(p)

SpecDeps == InitDeps /\ [][NextDeps]_vars

\* C9: after a successful setDependencies(D) by x and until x's dependencies
\* are written again, the key set of x's current_dependencies is the set of
\* ids listed in D, and each entry has the kind and health checks of the last
\* requirement of D naming its id.
C9_Replaces ==
    \A x \in Installed :
        \A L \in hist.last_deps[x] :
            /\ DOMAIN DepsOf(x) = {r.id : r \in L}
            /\ \A r \in L :
                  DepsOf(x)[r.id].kind =
                     IF r.kind = "exists" THEN KindExists
                     ELSE KindRunning(r.health_checks)

\* a list naming the same id twice has been stored
C9_Witness ==
    /\ result.op = "setDependencies" /\ result.kind = "Ok" /\ result.value = 2
    /\ DOMAIN DepsOf(result.caller) = {"a"}
    /\ DepsOf(result.caller)["a"].kind = KindRunning({"main"})

\* C10: getDependencies called by x after a successful setDependencies(D) by
\* x, with no other write of x's dependencies in between, returns one
\* requirement per distinct id of D, equal to D's (last) requirement for it.
C10_Inverse ==
    (result.op = "getDependencies" /\ result.kind = "Ok") =>
        \A L \in hist.last_deps[result.caller] :
            /\ {result.value[i] : i \in 1..Len(result.value)} = L
            /\ Len(result.value) = Cardinality(L)

C10_Witness ==
    /\ result.op = "getDependencies" /\ result.kind = "Ok"
    /\ hist.last_deps[result.caller] # {}
    /\ Len(result.value) = 2
    /\ result.value[1] = ExistsReq("a", "=2.0.0", "r2")
    /\ result.value[2] = RunningReq("b", {"main"}, "*", "r1")

------------------------------------------------------------------------------
(* SpecBoot: boot reconciliation running beside the guests' setDependencies *)

MaxDepsBoot == 1

InitBoot == InitEffects

NextBoot ==
    \/ \E p \in PackageIds : RemoveBegin(p)
    \/ \E p \in PackageIds : DropSeed(p)
    \/ \E p \in PackageIds : RemoveEntry(p)
    \/ \E p \in PackageIds,
          D \in SeqsUpTo(Reqs(PackageIds, {{"main"}}, {<<"*", "r1">>}), MaxDepsBoot) :
          set_dependencies(p, D, "sat")
    \/ \E cfg \in {"sat", "unsat"} : cleanup_peek(cfg)
    \/ cleanup_mutate

SpecBoot == InitBoot /\ [][NextBoot]_vars

DependentsOf(p) == package_data[p].current_dependents

\* C3 as stated: in every state, for all installed A and B, B is in
\* current_dependents of A iff A is in current_dependencies of B.
C3_Mirror ==
    \A A \in Installed, B \in Installed :
        (B \in DOMAIN DependentsOf(A)) <=> (A \in DOMAIN DepsOf(B))

------------------------------------------------------------------------------
(* SpecStore: the guests' reads and writes of the private stores *)

MaxPathLen == 2

Keys == {"k", "j"}

\* pointers of up to MaxPathLen segments that never repeat a key in a row
StorePaths ==
    {path \in SeqsUpTo(Keys, MaxPathLen) :
        \A i \in 2..Len(path) : path[i] # path[i - 1]}

\* what package a writes; b writes one number under /k
StoreValues == {Num(42), EmptyObj}

InitStore ==
    /\ package_data = [q \in PackageIds |-> NewEntry("1.0.0")]
    /\ \E S \in SUBSET PackageIds : package_stores \in [S -> {Null, EmptyObj}]
    /\ services = PackageIds
    /\ seeds = PackageIds
    /\ ci = CiIdle
    /\ result = NoResult
    /\ hist = HistInit
    /\ ExtInit

NextStore ==
    \/ \E path \in StorePaths, v \in StoreValues : set_store("a", path, v)
    \/ set_store("b", <<"k">>, Num(7))
    \/ \E p \in PackageIds, q \in {"none", "a"}, path \in StorePaths :
          get_store(p, q, path)
    \/ expose_for_dependents("a", {<<"k">>})
    \/ \E D \in SeqsUpTo({ExistsReq("a", "*", "r1")}, 1) :
          set_dependencies("b", D, "sat")

SpecStore == InitStore /\ [][NextStore]_vars

IsPrefix(e, path) ==
    /\ Len(e) <= Len(path)
    /\ \A i \in 1..Len(e) : e[i] = path[i]

\* x has exposed a path covering `path`
Covered(x, path) == \E e \in hist.exposed[x] : IsPrefix(e, path)

\* C6 as stated: getStore(package_id = x, path) by another guest y answers
\* NotFound unless x has exposed a path covering `path` and y has declared x
\* as a dependency.
C6_ForeignReadNeedsExposure ==
    [][(result'.op = "getStore" /\ result'.kind \in {"Ok", "NotFound"}) =>
         LET y == result'.caller
             x == result'.value.package_id
         IN  (x \notin {"none", y}
                /\ ~(Covered(x, result'.value.path) /\ x \in DOMAIN DepsOf(y)))
             => result'.kind = "NotFound"
      ]_vars

C8_SetStoreFrame ==
    [][result'.op = "setStore" =>
         /\ package_data' = package_data
         /\ \A y \in PackageIds \ {result'.caller} :
               /\ (y \in DOMAIN package_stores') <=> (y \in DOMAIN package_stores)
               /\ y \in DOMAIN package_stores =>
                     package_stores'[y] = package_stores[y]
         /\ result'.kind # "Ok" => package_stores' = package_stores
      ]_vars

\* a has written while b holds a store of its own
C8_Witness ==
    /\ result.op = "setStore" /\ result.kind = "Ok" /\ result.caller = "a"
    /\ "b" \in DOMAIN package_stores
    /\ package_stores["b"] = Obj([k \in {"k"} |-> Num(7)])
    /\ "a" \in DOMAIN package_stores
    /\ package_stores["a"] # EmptyObj

------------------------------------------------------------------------------
(* SpecArchive: archives built from bounded contents, serialized, read back, *)
(* filtered and read                                                         *)

MaxFileLen == 1

FileBytes == SeqsUpTo({7}, MaxFileLen)

Contexts == {"c1", "c2"}

\* a nested directory holds at most the file x
InnerDirs ==
    {<<>>} \cup {<<Named("x", EntryNew(FileContents(b)))>> : b \in FileBytes}

RootEntries ==
    {EntryNew(FileContents(b)) : b \in FileBytes}
    \cup {EntryNew(MissingContents)}
    \cup {EntryNew(DirectoryContents(d)) : d \in InnerDirs}

NameOrders == {<<>>, <<"x">>, <<"y">>, <<"x", "y">>, <<"y", "x">>}

RootDirs ==
    UNION {{[i \in 1..Len(ns) |-> Named(ns[i], f[i])] :
               f \in [1..Len(ns) -> RootEntries]} : ns \in NameOrders}

BuiltArchives ==
    {MerkleArchiveNew(d, kc[1], kc[2]) :
        d \in RootDirs, kc \in {<<"k1", "c1">>, <<"k2", "c2">>}}

ArchivePaths == {<<"x">>, <<"y">>, <<"x", "x">>, <<"y", "x">>}

\* the predicates given to filter, as the sets of paths they accept
Keeps ==
    {ArchivePaths, {}, ArchivePaths \ {<<"y">>}, ArchivePaths \ {<<"x", "x">>}}

InitArchive ==
    /\ package_data = EmptyMap
    /\ package_stores = EmptyMap
    /\ services = {}
    /\ seeds = {}
    /\ ci = CiIdle
    /\ result = NoResult
    /\ hist = HistInit
    /\ persistent_container = PcInit
    /\ fs = FsInit
    /\ is_closed = FALSE
    /\ sd = SdIdle
    /\ IoInit
    /\ \E A \in BuiltArchives :
          ar = [orig |-> A, cur |-> A, wire |-> {}, from |-> "none"]

NextArchive ==
    \/ \E verify \in BOOLEAN : ArSerialize(verify)
    \/ \E context \in Contexts : ArDeserialize(context)
    \/ \E keep \in Keeps : ArFilter(keep)
    \/ \E path \in ArchivePaths : ArRead(path)
    \/ \E path \in ArchivePaths : ArHash(path)

SpecArchive == InitArchive /\ [][NextArchive]_vars

RECURSIVE NoMissing(_)
NoMissing(entries) ==
    \A i \in 1..Len(entries) :
        /\ entries[i].entry.contents.t # "Missing"
        /\ entries[i].entry.contents.t = "Directory" =>
              NoMissing(entries[i].entry.contents.entries)

\* same names in the same order, same entry types, same (hash, size), same
\* file bytes
RECURSIVE StructEq(_, _)
StructEq(a, b) ==
    /\ Len(a) = Len(b)
    /\ \A i \in 1..Len(a) :
          /\ a[i].name = b[i].name
          /\ a[i].entry.contents.t = b[i].entry.contents.t
          /\ HeaderHash(a[i].entry) = HeaderHash(b[i].entry)
          /\ a[i].entry.contents.t = "File" =>
                a[i].entry.contents.bytes = b[i].entry.contents.bytes
          /\ a[i].entry.contents.t = "Directory" =>
                StructEq(a[i].entry.contents.entries,
                         b[i].entry.contents.entries)

\* C11: an archive built with key k and context ctx from files and
\* directories serializes (verify = true); deserializing those bytes under
\* ctx succeeds, gives a structurally equal archive, and its signer() is k's
\* verifying key.
C11_RoundTrip ==
    [][/\ (result'.op = "serialize" /\ result'.value.verify
             /\ ar.cur = ar.orig /\ NoMissing(ar.orig.contents))
          => result'.kind = "Ok"
       /\ (result'.op = "deserialize" /\ ar.from = "built"
             /\ NoMissing(ar.orig.contents)
             /\ result'.value.context = ar.orig.signer.context)
          => /\ result'.kind = "Ok"
             /\ StructEq(ar'.cur.contents, ar.orig.contents)
             /\ signer(ar'.cur) = VerifyingKey(ar.orig.signer.key)
      ]_vars

\* an archive with a nested file has made the round trip
C11_Witness ==
    /\ result.op = "deserialize" /\ result.kind = "Ok"
    /\ ar.from = "built" /\ ar.cur.signer.t = "Signed"
    /\ ar.orig.signer = SignerKey("k2", "c2")
    /\ get_path(ar.orig.contents, <<"y", "x">>) = {EntryNew(FileContents(<<7>>))}
    /\ get_path(ar.cur.contents, <<"y", "x">>)
          = {EntryHashed(<<Blake3File(<<7>>), 1>>, FileContents(<<7>>))}

\* C12: an image whose signature was made under context c1 is refused, and
\* no archive returned, by deserialize under any other context; under c1 it
\* is accepted.
C12_ContextSeparation ==
    [][result'.op = "deserialize" =>
         \A w \in ar.wire :
            /\ w.signature.context # result'.value.context
                  => (result'.kind # "Ok" /\ ar' = ar)
            /\ w.signature.context = result'.value.context
                  => result'.kind = "Ok"
      ]_vars

\* the image of an empty archive has been refused under the other context
C12_Witness ==
    /\ result.op = "deserialize" /\ result.kind = "InvalidSignature"
    /\ \E w \in ar.wire :
          /\ w.toc = <<>>
          /\ w.signature.context # result.value.context

\* the entries of A that filter(keep) prunes: rejected paths all of whose
\* ancestors are accepted
Pruned(A, keep) ==
    {path \in ArchivePaths :
        /\ get_path(A.contents, path) # {}
        /\ path \notin keep
        /\ \A n \in 1..(Len(path) - 1) : SubSeq(path, 1, n) \in keep}

\* C13: filter on a signed archive succeeds; every pruned entry becomes a
\* Missing stub with the (hash, size) it had, the root sighash stays, and
\* the filtered archive serializes to an image that carries the original
\* signature and deserializes under the original context.
C13_FilterKeepsSignature ==
    [][(result'.op = "filter" /\ ar.cur.signer.t = "Signed") =>
         /\ result'.kind = "Ok"
         /\ sighash(ar'.cur.contents) = sighash(ar.cur.contents)
         /\ \A path \in Pruned(ar.cur, result'.value.keep) :
               \A e \in get_path(ar.cur.contents, path) :
                  get_path(ar'.cur.contents, path)
                     = {EntryHashed(HeaderHash(e).v, MissingContents)}
         /\ LET w == serialize(ar'.cur, TRUE) IN
               /\ w.ok
               /\ w.v.signature = ar.cur.signer.signature
               /\ deserialize(w.v, ar.cur.signer.context).ok
      ]_vars

\* a file in a kept directory has been pruned from a signed archive
C13_Witness ==
    /\ result.op = "filter" /\ result.kind = "Ok"
    /\ ar.cur.signer.t = "Signed"
    /\ <<"x">> \in result.value.keep /\ <<"x", "x">> \notin result.value.keep
    /\ get_path(ar.cur.contents, <<"x", "x">>)
          = {EntryHashed(<<Blake3File(<<7>>), 1>>, MissingContents)}
    /\ \E e \in get_path(ar.orig.contents, <<"x", "x">>) :
          e.contents = FileContents(<<7>>)

\* C14: reading the bytes of a Missing entry fails, and so does computing
\* the hash of a Missing entry that has no retained hash.
C14_MissingReported ==
    [][/\ result'.op = "read" =>
             \A e \in get_path(ar.cur.contents, result'.value.path) :
                e.contents.t = "Missing" => result'.kind = "ParseS9pk"
       /\ result'.op = "hash" =>
             \A e \in get_path(ar.cur.contents, result'.value.path) :
                (e.contents.t = "Missing" /\ e.hash = {})
                   => result'.kind = "Pack"
      ]_vars

\* a pruned entry, whose hash is retained, has been read
C14_Witness ==
    /\ result.op = "read" /\ result.kind = "ParseS9pk"
    /\ \E e \in get_path(ar.cur.contents, result.value.path) :
          e.contents.t = "Missing" /\ e.hash # {}

------------------------------------------------------------------------------
(* Effect handlers: createOverlayedImage / destroyOverlayedImage *)

MaxGuids == 3

\* new_guid(): the guids the model draws from
Guids == 1..MaxGuids

\* the value reported when the handler fails before new_guid()
NoGuid == 0

ARCH == "x86_64"

ImageIds == {"main", "data", "absent"}

\* The s9pk of every package of the model: images/<arch>/main is a file,
\* images/<arch>/data is a directory, nothing else is packed.
S9pk ==
    <<Named("images", EntryNew(DirectoryContents(
        <<Named(ARCH, EntryNew(DirectoryContents(
            <<Named("main", EntryNew(FileContents(<<7>>))),
              Named("data", EntryNew(DirectoryContents(<<>>)))>>)))>>)))>>

\* Path::new("images").join(*ARCH).join(&image_id).with_extension("squashfs")
ImagePath(image_id) == <<"images", ARCH, image_id>>

\* Entry::as_file
as_file(e) == IF e.contents.t = "File" THEN {e.contents} ELSE {}

\* rootfs_dir.join("media/startos/overlays").join(&*guid), in p's rootfs
Mountpoint(p, g) == <<p, g>>

\* Path::new("/").join(mountpoint.strip_prefix(rootfs_dir))
ContainerMountpoint(g) == <<"media", "startos", "overlays", g>>

\* a guid new_guid() can return: one that names nothing yet
FreshGuid(g) ==
    /\ \A q \in PackageIds :
          /\ g \notin persistent_container[q].overlays
          /\ Mountpoint(q, g) \notin fs.dirs
          /\ Mountpoint(q, g) \notin fs.mounted

\* OverlayGuard::mount succeeded: the overlay is mounted at the mountpoint
GuardMount(f, m) == [f EXCEPT !.mounted = @ \cup {m}]

\* Drop of the OverlayGuard taken out of the map: the overlay is unmounted
GuardDrop(f, m) == [f EXCEPT !.mounted = @ \ {m}]

CreateValue(image_id, g, step) == [image_id |-> image_id, guid |-> g, step |-> step]

\* create_overlayed_image.  `g` is what new_guid() returns; `io` names the
\* step of the host that fails ("none": every step succeeds).
create_overlayed_image(p, image_id, g, io) ==
    /\ FreshGuid(g)
    /\ IF ~deref(p)
       THEN /\ result' = Destroyed("createOverlayedImage", p)
            /\ UNCHANGED <<persistent_container, fs>>
       ELSE LET image == UNION {as_file(e) : e \in get_path(S9pk, ImagePath(image_id))} IN
            IF image = {}
            THEN /\ result' = Err("createOverlayedImage", p, "NotFound",
                                  CreateValue(image_id, NoGuid, "get_path"))
                 /\ UNCHANGED <<persistent_container, fs>>
            ELSE IF ~persistent_container[p].lxc_container
            THEN /\ result' = Err("createOverlayedImage", p, "Incoherent",
                                  CreateValue(image_id, g, "lxc_container"))
                 /\ UNCHANGED <<persistent_container, fs>>
            ELSE IF io = "create_dir_all"
            THEN /\ result' = Err("createOverlayedImage", p, "Filesystem",
                                  CreateValue(image_id, g, io))
                 /\ UNCHANGED <<persistent_container, fs>>
            ELSE IF io \in {"chown", "mount"}
            THEN /\ fs' = [fs EXCEPT !.dirs = @ \cup {Mountpoint(p, g)}]
                 /\ result' = Err("createOverlayedImage", p, "Filesystem",
                                  CreateValue(image_id, g, io))
                 /\ UNCHANGED persistent_container
            ELSE /\ fs' = GuardMount([fs EXCEPT !.dirs = @ \cup {Mountpoint(p, g)}],
                                     Mountpoint(p, g))
                 /\ persistent_container' =
                       [persistent_container EXCEPT ![p].overlays = @ \cup {g}]
                 /\ result' = Ok("createOverlayedImage", p,
                                 [image_id |-> image_id, guid |-> g,
                                  mountpoint |-> ContainerMountpoint(g)])
    /\ UNCHANGED <<dbVars, services, seeds, ci, hist, is_closed, sd, ar, ioVars>>

\* destroy_overlayed_image with the removal left out
destroy_overlayed_image_peek(p, guid) ==
    /\ result' = IF ~deref(p) THEN Destroyed("destroyOverlayedImage", p)
                 ELSE Ok("destroyOverlayedImage", p,
                         [guid |-> guid,
                          found |-> guid \in persistent_container[p].overlays])
    /\ UNCHANGED <<persistent_container, fs>>
    /\ UNCHANGED <<dbVars, services, seeds, ci, hist, is_closed, sd, ar, ioVars>>

\* destroy_overlayed_image that drops every guard when the guid is unknown
destroy_overlayed_image_sweep(p, guid) ==
    /\ IF ~deref(p)
       THEN /\ result' = Destroyed("destroyOverlayedImage", p)
            /\ UNCHANGED <<persistent_container, fs>>
       ELSE /\ persistent_container' =
                  [persistent_container EXCEPT ![p].overlays =
                      IF guid \in @ THEN @ \ {guid} ELSE {}]
            /\ fs' = [fs EXCEPT !.mounted =
                        IF guid \in persistent_container[p].overlays
                        THEN @ \ {Mountpoint(p, guid)}
                        ELSE @ \ {Mountpoint(p, g) : g \in Guids}]
            /\ result' = Ok("destroyOverlayedImage", p,
                            [guid |-> guid,
                             found |-> guid \in persistent_container[p].overlays])
    /\ UNCHANGED <<dbVars, services, seeds, ci, hist, is_closed, sd, ar, ioVars>>

\* destroy_overlayed_image: overlays.lock().remove(&guid); the guard that was
\* removed is dropped at the end of the condition; Ok(()) either way
destroy_overlayed_image(p, guid) ==
    /\ IF ~deref(p)
       THEN /\ result' = Destroyed("destroyOverlayedImage", p)
            /\ UNCHANGED <<persistent_container, fs>>
       ELSE /\ persistent_container' =
                  [persistent_container EXCEPT ![p].overlays = @ \ {guid}]
            /\ fs' = IF guid \in persistent_container[p].overlays
                     THEN GuardDrop(fs, Mountpoint(p, guid))
                     ELSE fs
            /\ result' = Ok("destroyOverlayedImage", p,
                            [guid |-> guid,
                             found |-> guid \in persistent_container[p].overlays])
    /\ UNCHANGED <<dbVars, services, seeds, ci, hist, is_closed, sd, ar, ioVars>>

\* The container of p is torn down while its seed is still there: every
\* overlay is unmounted, the rootfs is removed, lxc_container.get() is None.
ContainerDestroy(p) ==
    /\ persistent_container[p].lxc_container
    /\ persistent_container' =
          [persistent_container EXCEPT ![p].overlays = {},
                                       ![p].lxc_container = FALSE]
    /\ fs' = [dirs |-> fs.dirs \ {Mountpoint(p, g) : g \in Guids},
              mounted |-> fs.mounted \ {Mountpoint(p, g) : g \in Guids}]
    /\ result' = NoResult
    /\ UNCHANGED <<dbVars, services, seeds, ci, hist, is_closed, sd, ar, ioVars>>

IoSteps == {"none", "create_dir_all", "chown", "mount"}

InitOverlay == InitEffects

NextOverlay ==
    \/ \E p \in PackageIds : RemoveBegin(p)
    \/ \E p \in PackageIds : DropSeed(p)
    \/ \E p \in PackageIds : ContainerDestroy(p)
    \/ \E p \in PackageIds, image_id \in ImageIds, g \in Guids, io \in IoSteps :
          create_overlayed_image(p, image_id, g, io)
    \/ \E p \in PackageIds, g \in Guids : destroy_overlayed_image(p, g)

SpecOverlay == InitOverlay /\ [][NextOverlay]_vars

\* C15: a successful createOverlayedImage returning g leaves a guard under g
\* in the caller's overlays map with the overlay mounted at
\* media/startos/overlays/g; a destroyOverlayedImage(g) by the caller while
\* the guard is in the map succeeds, removes the guard and unmounts, so that
\* afterwards g is not in the map and nothing is mounted at its mountpoint.
C15_OverlayRelease ==
    [][/\ (result'.op = "createOverlayedImage" /\ result'.kind = "Ok")
            => /\ result'.value.guid \in
                      persistent_container'[result'.caller].overlays
               /\ Mountpoint(result'.caller, result'.value.guid) \in fs'.mounted
               /\ result'.value.mountpoint =
                      <<"media", "startos", "overlays", result'.value.guid>>
       /\ (/\ result'.op = "destroyOverlayedImage"
           /\ result'.alive
           /\ \E g \in persistent_container[result'.caller].overlays :
                 result'.value.guid = g)
            => /\ result'.kind = "Ok"
               /\ result'.value.guid \notin
                      persistent_container'[result'.caller].overlays
               /\ Mountpoint(result'.caller, result'.value.guid) \notin fs'.mounted
      ]_vars

C15_Witness ==
    /\ result.op = "destroyOverlayedImage"
    /\ result.kind = "Ok"
    /\ result.value.found
    /\ result.value.guid \notin persistent_container[result.caller].overlays
    /\ Mountpoint(result.caller, result.value.guid) \notin fs.mounted
    /\ Mountpoint(result.caller, result.value.guid) \in fs.dirs

\* C16: destroyOverlayedImage with a guid that is not in the caller's
\* overlays map returns success and changes neither the overlays maps nor the
\* mounts.
C16_UnknownGuidNoop ==
    [][(/\ result'.op = "destroyOverlayedImage"
        /\ result'.alive
        /\ result'.value.guid \notin persistent_container[result'.caller].overlays)
          => /\ result'.kind = "Ok"
             /\ UNCHANGED <<persistent_container, fs>>
      ]_vars

C16_Witness ==
    /\ result.op = "destroyOverlayedImage"
    /\ result.kind = "Ok"
    /\ ~result.value.found
    /\ persistent_container[result.caller].overlays # {}
    /\ \A g \in persistent_container[result.caller].overlays :
          Mountpoint(result.caller, g) \in fs.mounted

\* C17 as stated: a createOverlayedImage that fails adds nothing to the
\* overlays map and leaves nothing mounted or set up for the would-be guid.
C17_FailedCreateLeavesNothing ==
    [][(result'.op = "createOverlayedImage" /\ result'.kind # "Ok")
          => UNCHANGED <<persistent_container, fs>>
      ]_vars

------------------------------------------------------------------------------
(* Effect handlers: bind / getServicePortForward *)

MaxExternal == 3

\* the range external ports are drawn from
ExternalPorts == 1..MaxExternal

HostKinds == {"multi"}

HostIds == {"h1", "h2"}

\* BindParams::internal_port (u16) of the model's guests
InternalPorts == {80}

\* the number of u16 values: `as u16` keeps the value modulo it
U16Range == 65536

\* GetServicePortForwardParams::internal_port (u32) of the model's guests
QueriedPorts == {80, 80 + U16Range}

\* BindOptions of the model's guests
BindOptions ==
    {[preferred_external_port |-> 1, secure |-> FALSE],
     [preferred_external_port |-> 2, secure |-> TRUE]}

BindKey(id, internal_port) == <<id, internal_port>>

\* the external ports some package holds
AllocatedPorts ==
    UNION {{persistent_container[q].net_service[k].external :
                k \in DOMAIN persistent_container[q].net_service} :
           q \in PackageIds}

\* NetService::bind: the binding of (host id, internal port) keeps the
\* external port it has, a new binding gets `ext`; kind and options are
\* recorded as given
NetServiceBind(ns, kind, id, internal_port, options, ext) ==
    LET k == BindKey(id, internal_port) IN
    MapPut(ns, k, [kind |-> kind, options |-> options,
                   external |-> IF k \in DOMAIN ns THEN ns[k].external ELSE ext])

\* NetService::get_ext_port
NetServiceGetExtPort(ns, id, internal_port) ==
    IF BindKey(id, internal_port) \in DOMAIN ns
    THEN Good(ns[BindKey(id, internal_port)].external)
    ELSE Bad("NotFound")

\* p has a binding made by a bind with these very arguments
Rebind(p, kind, id, internal_port, options) ==
    LET ns == persistent_container[p].net_service
        k == BindKey(id, internal_port)
    IN /\ k \in DOMAIN ns
       /\ ns[k].kind = kind
       /\ ns[k].options = options

\* what a bind was called with, and whether it repeated an earlier bind
BindValue(p, kind, id, internal_port, options) ==
    [kind |-> kind, id |-> id, internal_port |-> internal_port,
     options |-> options,
     again |-> Rebind(p, kind, id, internal_port, options)]

\* bind whose NetService hands out a new external port on every call
bind_afresh(p, kind, id, internal_port, options, ext) ==
    /\ IF ~deref(p)
       THEN /\ result' = Destroyed("bind", p)
            /\ UNCHANGED persistent_container
       ELSE IF ext \in AllocatedPorts
       THEN /\ result' = Err("bind", p, "Network",
                             BindValue(p, kind, id, internal_port, options))
            /\ UNCHANGED persistent_container
       ELSE /\ persistent_container' =
                  [persistent_container EXCEPT ![p].net_service =
                      MapPut(@, BindKey(id, internal_port),
                             [kind |-> kind, options |-> options,
                              external |-> ext])]
            /\ result' = Ok("bind", p, BindValue(p, kind, id, internal_port, options))
    /\ UNCHANGED <<dbVars, services, seeds, ci, hist, fs, is_closed, sd, ar, ioVars>>

\* bind: deref, lock net_service, svc.bind(kind, id, internal_port, options).
\* `ext` is the port the allocator would hand out; a new binding fails when
\* the range has no free port left.
bind(p, kind, id, internal_port, options, ext) ==
    /\ IF ~deref(p)
       THEN /\ result' = Destroyed("bind", p)
            /\ UNCHANGED persistent_container
       ELSE IF /\ BindKey(id, internal_port) \notin
                     DOMAIN persistent_container[p].net_service
               /\ ext \in AllocatedPorts
       THEN /\ result' = Err("bind", p, "Network",
                             BindValue(p, kind, id, internal_port, options))
            /\ UNCHANGED persistent_container
       ELSE /\ persistent_container' =
                  [persistent_container EXCEPT ![p].net_service =
                      NetServiceBind(@, kind, id, internal_port, options, ext)]
            /\ result' = Ok("bind", p, BindValue(p, kind, id, internal_port, options))
    /\ UNCHANGED <<dbVars, services, seeds, ci, hist, fs, is_closed, sd, ar, ioVars>>

\* get_service_port_forward: data.internal_port as u16, deref, lock
\* net_service, get_ext_port(host_id, internal_port); package_id is not read
get_service_port_forward(p, package_id, internal_port, host_id) ==
    /\ result' =
          IF ~deref(p) THEN Destroyed("getServicePortForward", p)
          ELSE LET r == NetServiceGetExtPort(persistent_container[p].net_service,
                                             host_id, internal_port % U16Range) IN
               IF r.ok
               THEN Ok("getServicePortForward", p,
                       [package_id |-> package_id, host_id |-> host_id,
                        internal_port |-> internal_port, port |-> r.v])
               ELSE Err("getServicePortForward", p, r.kind,
                        [package_id |-> package_id, host_id |-> host_id,
                         internal_port |-> internal_port])
    /\ UNCHANGED <<dbVars, services, seeds, ci, hist, extVars>>

InitNet == InitEffects

NextNet ==
    \/ RemoveBegin("b")
    \/ DropSeed("b")
    \/ \E p \in PackageIds, kind \in HostKinds, id \in HostIds,
          internal_port \in InternalPorts, options \in BindOptions,
          ext \in ExternalPorts :
          bind(p, kind, id, internal_port, options, ext)
    \/ \E p \in PackageIds, package_id \in {"none", "a"},
          internal_port \in QueriedPorts, host_id \in HostIds :
          get_service_port_forward(p, package_id, internal_port, host_id)

SpecNet == InitNet /\ [][NextNet]_vars

\* what getServicePortForward({host_id, internal_port}) of p answers in the
\* state whose containers are pc: {port}, or {} when it fails
ForwardIn(pc, p, host_id, internal_port) ==
    LET r == NetServiceGetExtPort(pc[p].net_service, host_id, internal_port)
    IN IF r.ok THEN {r.v} ELSE {}

\* C18: for one package, a bind repeated with the same (kind, host_id,
\* internal_port, options) yields the same external port.  Checked step by
\* step: a bind of a binding made by an earlier bind with the same kind and
\* options succeeds and leaves the answer of getServicePortForward for it as
\* it was; no step at all (binds of other host ids or other packages
\* included) changes the answer for a binding that exists; and
\* getServicePortForward answers with the external port of the binding.
C18_BindIdempotent ==
    [][/\ (/\ result'.op = "bind"
           /\ result'.alive
           /\ Rebind(result'.caller, result'.value.kind, result'.value.id,
                     result'.value.internal_port, result'.value.options))
            => /\ result'.kind = "Ok"
               /\ ForwardIn(persistent_container', result'.caller,
                            result'.value.id, result'.value.internal_port)
                    = ForwardIn(persistent_container, result'.caller,
                                result'.value.id, result'.value.internal_port)
       /\ \A q \in PackageIds, id \in HostIds, port \in InternalPorts :
             ForwardIn(persistent_container, q, id, port) # {}
                => ForwardIn(persistent_container', q, id, port)
                      = ForwardIn(persistent_container, q, id, port)
       /\ (/\ result'.op = "getServicePortForward"
           /\ result'.alive
           /\ result'.value.internal_port \in InternalPorts)
            => IF ForwardIn(persistent_container, result'.caller,
                            result'.value.host_id,
                            result'.value.internal_port) = {}
               THEN result'.kind # "Ok"
               ELSE /\ result'.kind = "Ok"
                    /\ {result'.value.port} =
                          ForwardIn(persistent_container, result'.caller,
                                    result'.value.host_id,
                                    result'.value.internal_port)
      ]_vars

\* a second bind with the arguments of the first has succeeded while the
\* other host id and the other packages hold bindings too
C18_Witness ==
    /\ result.op = "bind"
    /\ result.kind = "Ok"
    /\ result.value.again
    /\ LET ns == persistent_container[result.caller].net_service IN
       /\ Cardinality(DOMAIN ns) = 2
       /\ \E q \in PackageIds \ {result.caller} :
             DOMAIN persistent_container[q].net_service # {}
       /\ ns[BindKey(result.value.id, result.value.internal_port)].external
             # result.value.options.preferred_external_port

------------------------------------------------------------------------------
(* RpcContext::shutdown *)

\* shutdown that raises the closed flag before it stops the services
shutdown_begin_closed ==
    /\ sd.pc \in {"idle", "failed"}
    /\ sd' = [pc |-> "stopping", all |-> services, left |-> services]
    /\ is_closed' = TRUE
    /\ result' = NoResult
    /\ UNCHANGED <<dbVars, services, seeds, ci, hist, persistent_container, fs, ar, ioVars>>

\* shutdown is entered: self.services.shutdown_all() starts with the
\* services the map holds at that moment
shutdown_begin ==
    /\ sd.pc \in {"idle", "failed"}
    /\ sd' = [pc |-> "stopping", all |-> services, left |-> services]
    /\ result' = NoResult
    /\ UNCHANGED <<dbVars, services, seeds, ci, hist, persistent_container, fs,
                   is_closed, ar, ioVars>>

\* shutdown_all stops one service: its supervisor leaves the map and its
\* seed is dropped; the database keeps the status the service had
shutdown_service(p) ==
    /\ sd.pc = "stopping"
    /\ p \in sd.left
    /\ services' = services \ {p}
    /\ seeds' = seeds \ {p}
    /\ sd' = [sd EXCEPT !.left = @ \ {p}]
    /\ result' = NoResult
    /\ UNCHANGED <<dbVars, ci, hist, persistent_container, fs, is_closed, ar, ioVars>>

\* shutdown_all fails on a service: `?` returns the error from shutdown
shutdown_fail(p) ==
    /\ sd.pc = "stopping"
    /\ p \in sd.left
    /\ sd' = [sd EXCEPT !.pc = "failed"]
    /\ result' = Err("shutdown", "none", "Unknown", p)
    /\ UNCHANGED <<dbVars, services, seeds, ci, hist, persistent_container, fs,
                   is_closed, ar, ioVars>>

\* shutdown_all returned Ok: is_closed.store(true, SeqCst); Ok(())
shutdown_store ==
    /\ sd.pc = "stopping"
    /\ sd.left = {}
    /\ is_closed' = TRUE
    /\ sd' = [sd EXCEPT !.pc = "done"]
    /\ result' = Ok("shutdown", "none", "none")
    /\ UNCHANGED <<dbVars, services, seeds, ci, hist, persistent_container, fs, ar, ioVars>>

InitShutdown == InitEffects

NextShutdown ==
    \/ \E p \in PackageIds : start(p)
    \/ \E p \in PackageIds : StartComplete(p)
    \/ \E p \in PackageIds, st \in {"running", "stopped"} : set_main_status(p, st)
    \/ \E p \in PackageIds, r \in SomeResults : set_health(p, "main", r)
    \/ shutdown_begin
    \/ \E p \in PackageIds : shutdown_service(p)
    \/ \E p \in PackageIds : shutdown_fail(p)
    \/ shutdown_store

SpecShutdown == InitShutdown /\ [][NextShutdown]_vars

\* C19: the closed flag is raised only after shutdown_all has stopped every
\* service it set out to stop; once true the flag never becomes false again;
\* and whenever shutdown returns Ok the flag is true.
C19_ClosedAfterStopped ==
    [][/\ (~is_closed /\ is_closed')
            => /\ sd.pc = "stopping"
               /\ sd.left = {}
               /\ sd.all \cap services' = {}
               /\ sd.all \cap seeds' = {}
       /\ is_closed => is_closed'
       /\ (result'.op = "shutdown" /\ result'.kind = "Ok") => is_closed'
      ]_vars

\* shutdown has returned Ok after stopping both services, one of them running
C19_Witness ==
    /\ result.op = "shutdown"
    /\ result.kind = "Ok"
    /\ is_closed
    /\ sd.all = PackageIds
    /\ services = {}
    /\ \E p \in Installed : package_data[p].main.tag = "Running"

------------------------------------------------------------------------------
(* Boot: services.init, then the rest of cleanup_and_initialize *)

\* a transient status (anything but Stopped and Running) collapses to Stopped
Collapse(main) ==
    IF main.tag \in {"Stopped", "Running"} THEN main ELSE Stopped

\* ServiceMap::init on the package data found at boot
ServiceMapInit(pd) == [q \in DOMAIN pd |-> [pd[q] EXCEPT !.main = Collapse(@)]]

\* the first step of cleanup_and_initialize with the statuses left as found
cleanup_init_uncollapsed ==
    /\ ci.pc = "boot"
    /\ services' = Installed
    /\ seeds' = Installed
    /\ ci' = [ci EXCEPT !.pc = "idle"]
    /\ hist' = [hist EXCEPT !.boot =
                   [q \in PackageIds |->
                       IF q \in Installed THEN package_data[q].main.tag ELSE "none"]]
    /\ result' = Ok("servicesInit", "none", "none")
    /\ UNCHANGED <<dbVars, extVars>>

\* self.services.init(&self).await?: every installed package gets its
\* supervisor and its seed, the statuses are reconciled
cleanup_init ==
    /\ ci.pc = "boot"
    /\ package_data' = ServiceMapInit(package_data)
    /\ services' = Installed
    /\ seeds' = Installed
    /\ ci' = [ci EXCEPT !.pc = "idle"]
    /\ hist' = [hist EXCEPT !.boot =
                   [q \in PackageIds |->
                       IF q \in Installed THEN package_data[q].main.tag ELSE "none"]]
    /\ result' = Ok("servicesInit", "none", "none")
    /\ UNCHANGED <<package_stores, extVars>>

\* the main statuses the database can hold when the host comes up
BootStatuses ==
    {Plain(t) : t \in StatusTags \ {"Running", "BackingUp"}}
    \cup {RunningStatus(EmptyMap), BackingUpStatus(EmptyMap)}

InitReboot ==
    /\ package_data \in
          [PackageIds -> {[NewEntry("1.0.0") EXCEPT !.main = m] : m \in BootStatuses}]
    /\ package_stores = EmptyMap
    /\ services = {}
    /\ seeds = {}
    /\ ci = [pc |-> "boot", snapshot |-> EmptyMap]
    /\ result = NoResult
    /\ hist = HistInit
    /\ ExtInit

\* Only a package that was Running at boot has a guest that calls effects
\* while cleanup_and_initialize is under way.
NextReboot ==
    \/ cleanup_init
    \/ \E cfg \in {"sat", "unsat"} : cleanup_peek(cfg)
    \/ cleanup_mutate
    \/ \E p \in PackageIds, st \in {"running", "stopped"} :
          hist.boot[p] = "Running" /\ set_main_status(p, st)
    \/ \E p \in PackageIds, r \in SomeResults :
          hist.boot[p] = "Running" /\ set_health(p, "main", r)
    \/ \E p \in PackageIds,
          D \in SeqsUpTo(Reqs({"a"}, {{"main"}}, {<<"*", "r1">>}), MaxDepsBoot) :
          hist.boot[p] = "Running" /\ set_dependencies(p, D, "sat")

SpecReboot == InitReboot /\ [][NextReboot]_vars

------------------------------------------------------------------------------
(* util/io.rs: TimeoutStream *)

\* everything outside util/io.rs and setup.rs
coreVars ==
    <<dbVars, services, seeds, ci, hist, persistent_container, fs, is_closed,
      sd, ar>>

sysVars == <<coreVars, tee, btr, ntp>>

MaxTime == 5

\* this.sleep.poll(cx) is Ready: the deadline has been reached
SleepElapsed == ts.now >= ts.deadline

\* a ready result that leaves the sleep as it is
SleepKeep(ready) ==
    IF ready THEN [ts EXCEPT !.last = ts.now] ELSE ts

\* this.sleep.reset(Instant::now() + *this.timeout) when the result is ready;
\* last is the time of the last ready result of the inner stream
SleepReset(ready) ==
    IF ready THEN [ts EXCEPT !.deadline = ts.now + IdleWindow, !.last = ts.now]
    ELSE ts

\* what a poll reports: its outcome, whether the inner stream was polled and
\* whether the idle window had elapsed when it was made
PollValue(forwarded) == [forwarded |-> forwarded, elapsed |-> SleepElapsed]

PollOutcome(ready) == IF ready THEN "Ok" ELSE "Pending"

\* time passes; brisk tells that so far the inner stream has never gone a
\* whole idle window without a ready result
Tick ==
    /\ ts.now < MaxTime
    /\ ts' = [ts EXCEPT !.now = @ + 1,
                        !.brisk = @ /\ ts.now + 1 - ts.last < IdleWindow]
    /\ result' = NoResult
    /\ UNCHANGED <<sysVars, tmp, su, pw>>

\* TimeoutStream::poll_read; `ready` is whether the inner poll_read is Ready
TimeoutPollRead(ready) ==
    /\ IF SleepElapsed
       THEN /\ result' = Err("pollRead", "none", "TimedOut", PollValue(FALSE))
            /\ UNCHANGED ts
       ELSE /\ ts' = SleepReset(ready)
            /\ result' = Err("pollRead", "none", PollOutcome(ready), PollValue(TRUE))
    /\ UNCHANGED <<sysVars, tmp, su, pw>>

\* TimeoutStream::poll_write: the inner poll_write, then the reset
TimeoutPollWrite(ready) ==
    /\ ts' = SleepReset(ready)
    /\ result' = Err("pollWrite", "none", PollOutcome(ready), PollValue(TRUE))
    /\ UNCHANGED <<sysVars, tmp, su, pw>>

\* TimeoutStream::poll_flush
TimeoutPollFlush(ready) ==
    /\ ts' = SleepReset(ready)
    /\ result' = Err("pollFlush", "none", PollOutcome(ready), PollValue(TRUE))
    /\ UNCHANGED <<sysVars, tmp, su, pw>>

\* TimeoutStream::poll_shutdown
TimeoutPollShutdown(ready) ==
    /\ ts' = SleepReset(ready)
    /\ result' = Err("pollShutdown", "none", PollOutcome(ready), PollValue(TRUE))
    /\ UNCHANGED <<sysVars, tmp, su, pw>>

InitTimeout == InitEffects

NextTimeout ==
    \/ Tick
    \/ \E ready \in BOOLEAN : TimeoutPollRead(ready)
    \/ \E ready \in BOOLEAN : TimeoutPollWrite(ready)
    \/ \E ready \in BOOLEAN : TimeoutPollFlush(ready)
    \/ \E ready \in BOOLEAN : TimeoutPollShutdown(ready)

SpecTimeout == InitTimeout /\ [][NextTimeout]_vars

\* C21 as stated: when no I/O has completed for the idle window (the sleep
\* armed by the last completed I/O has elapsed), the next read and the next
\* write fail with TimedOut and are not passed on to the inner stream.
C21_IdleTimesOut ==
    [][(result'.op \in {"pollRead", "pollWrite"} /\ SleepElapsed)
          => /\ result'.kind = "TimedOut"
             /\ ~result'.value.forwarded
      ]_vars

TimeoutPolls == {"pollRead", "pollWrite", "pollFlush", "pollShutdown"}

\* C36: every poll of read, write, flush or shutdown whose inner poll is
\* Ready moves the deadline to now + timeout; TimedOut is reported only when
\* no inner poll has been Ready for a whole timeout, so a stream on which
\* some I/O completes at intervals shorter than the timeout never reports it.
C36_ReadyResets ==
    /\ [][(result'.op \in TimeoutPolls /\ result'.kind = "Ok")
             => /\ ts'.deadline = ts.now + IdleWindow
                /\ ts'.now = ts.now]_vars
    /\ [][(result'.op \in TimeoutPolls /\ result'.kind = "TimedOut")
             => ts.now - ts.last >= IdleWindow]_vars
    /\ [][ts'.brisk => ~(result'.op \in TimeoutPolls
                           /\ result'.kind = "TimedOut")]_vars

\* I/O has completed at intervals shorter than the timeout up to the last
\* moment of the model's time, well past the first deadline, and a read has
\* just gone through
C36_Witness ==
    /\ ts.brisk /\ ts.now = MaxTime /\ ts.last = MaxTime
    /\ result.op = "pollRead" /\ result.kind = "Ok"

------------------------------------------------------------------------------
(* util/io.rs: TmpDir *)

\* tokio::fs::remove_dir_all(path): the directory goes; removing what is not
\* there counts as a second removal
RemoveDirAll(t, x) ==
    [t EXCEPT !.dirs = @ \ {x},
              !.removed[x] = IF x \in t.dirs THEN @ + 1 ELSE 2]

\* Drop for TmpDir without the look at the path
DropTmpDirAlways(t, x) == [t EXCEPT !.tasks = @ \cup {x}]

\* Drop for TmpDir: if self.path.exists() the removal is spawned as a task
DropTmpDir(t, x) ==
    IF x \in t.dirs THEN [t EXCEPT !.tasks = @ \cup {x}] ELSE t

\* TmpDir::new.  A name that exists is refused; a name that was used and is
\* gone is not drawn again (64 random bits).
TmpNew(x) ==
    /\ x \in tmp.dirs \/ x \notin tmp.used
    /\ IF x \in tmp.dirs
       THEN /\ result' = Err("tmpNew", "none", "Filesystem", x)
            /\ UNCHANGED tmp
       ELSE /\ tmp' = [tmp EXCEPT !.dirs = @ \cup {x}, !.live = @ \cup {x},
                                  !.used = @ \cup {x}]
            /\ result' = Ok("tmpNew", "none", x)
    /\ UNCHANGED <<sysVars, ts, su, pw>>

\* TmpDir::delete up to the end of remove_dir_all(&self.path).await
TmpDelete(x) ==
    /\ x \in tmp.live
    /\ tmp' = [RemoveDirAll(tmp, x) EXCEPT !.live = @ \ {x},
                                            !.deleting = @ \cup {x}]
    /\ result' = NoResult
    /\ UNCHANGED <<sysVars, ts, su, pw>>

\* TmpDir::delete returns Ok(()): self goes out of scope and is dropped
TmpDeleteReturn(x) ==
    /\ x \in tmp.deleting
    /\ tmp' = [DropTmpDir(tmp, x) EXCEPT !.deleting = @ \ {x}]
    /\ result' = Ok("tmpDelete", "none", x)
    /\ UNCHANGED <<sysVars, ts, su, pw>>

\* a TmpDir value is dropped
TmpDrop(x) ==
    /\ x \in tmp.live
    /\ tmp' = [DropTmpDir(tmp, x) EXCEPT !.live = @ \ {x}]
    /\ result' = Ok("tmpDrop", "none", x)
    /\ UNCHANGED <<sysVars, ts, su, pw>>

\* the task spawned by drop runs: remove_dir_all(&path).await.unwrap()
TmpTaskRun(x) ==
    /\ x \in tmp.tasks
    /\ tmp' = [RemoveDirAll(tmp, x) EXCEPT !.tasks = @ \ {x}]
    /\ result' = Ok("tmpTask", "none", x)
    /\ UNCHANGED <<sysVars, ts, su, pw>>

InitTmp == InitEffects

NextTmp ==
    \/ \E x \in TmpPaths : TmpNew(x)
    \/ \E x \in TmpPaths : TmpDelete(x)
    \/ \E x \in TmpPaths : TmpDeleteReturn(x)
    \/ \E x \in TmpPaths : TmpDrop(x)
    \/ \E x \in TmpPaths : TmpTaskRun(x)

\* the runtime runs every task that was spawned
SpecTmp ==
    InitTmp /\ [][NextTmp]_vars /\ \A x \in TmpPaths : WF_vars(TmpTaskRun(x))

------------------------------------------------------------------------------
(* Effect handlers: exportServiceInterface / listServiceInterfaces *)

ServiceInterfaceIds == {"ui"}

InterfaceNames == {"n1", "n2"}

\* export_service_interface: the interface is inserted under its id in the
\* caller's service_interfaces (of the declared fields the name is kept)
export_service_interface(p, id, name) ==
    /\ IF ~deref(p)
       THEN /\ result' = Destroyed("exportServiceInterface", p)
            /\ UNCHANGED package_data
       ELSE IF p \notin Installed
       THEN /\ result' = Err("exportServiceInterface", p, "NotFound", p)
            /\ UNCHANGED package_data
       ELSE /\ package_data' =
                  [package_data EXCEPT ![p].service_interfaces =
                      MapPut(@, id, [id |-> id, name |-> name])]
            /\ result' = Ok("exportServiceInterface", p, id)
    /\ UNCHANGED <<package_stores, services, seeds, ci, hist, extVars>>

\* list_service_interfaces: package_id = context.id; data.package_id is not
\* read
list_service_interfaces(p, package_id) ==
    /\ result' =
          IF ~deref(p) THEN Destroyed("listServiceInterfaces", p)
          ELSE IF p \notin Installed
          THEN Err("listServiceInterfaces", p, "NotFound",
                   [package_id |-> package_id])
          ELSE Ok("listServiceInterfaces", p,
                  [package_id |-> package_id,
                   interfaces |-> package_data[p].service_interfaces])
    /\ UNCHANGED <<dbVars, services, seeds, ci, hist, extVars>>

InitIfaces == InitEffects

NextIfaces ==
    \/ RemoveBegin("b")
    \/ DropSeed("b")
    \/ RemoveEntry("b")
    \/ \E p \in PackageIds, id \in ServiceInterfaceIds, name \in InterfaceNames :
          export_service_interface(p, id, name)
    \/ \E p \in PackageIds, package_id \in {"none"} \cup PackageIds :
          list_service_interfaces(p, package_id)
    \/ \E p \in PackageIds, options \in BindOptions, ext \in ExternalPorts :
          bind(p, "multi", "h1", 80, options, ext)
    \/ \E p \in PackageIds, package_id \in {"none"} \cup PackageIds :
          get_service_port_forward(p, package_id, 80, "h1")

SpecIfaces == InitIfaces /\ [][NextIfaces]_vars

\* the package an optional package_id stands for
ReadTarget(caller, package_id) ==
    IF package_id = "none" THEN caller ELSE package_id

\* C23 as stated: listServiceInterfaces(package_id) answers with the service
\* interfaces of the package the id names, getServicePortForward(package_id,
\* host_id, internal_port) with that package's port forward; with package_id
\* omitted both answer for the caller.
C23_PackageIdSelects ==
    [][/\ (/\ result'.op = "listServiceInterfaces"
           /\ result'.kind = "Ok")
            => LET q == ReadTarget(result'.caller, result'.value.package_id) IN
               /\ q \in Installed
               /\ result'.value.interfaces = package_data[q].service_interfaces
       /\ (/\ result'.op = "getServicePortForward"
           /\ result'.kind = "Ok")
            => {result'.value.port} =
                  ForwardIn(persistent_container,
                            ReadTarget(result'.caller, result'.value.package_id),
                            result'.value.host_id, result'.value.internal_port)
      ]_vars

------------------------------------------------------------------------------
(* Properties of SpecStore: concurrent and failing setStore calls *)

\* neither pointer leads into the value of the other
NonOverlapping(path1, path2) == ~IsPrefix(path1, path2) /\ ~IsPrefix(path2, path1)

\* C24: two setStore calls of one package on non-overlapping paths that run
\* concurrently commit one after the other (each is one mutate); the later
\* commit is applied to what the earlier one left, so the store then holds
\* both values and is the result of that serial order.
C24_NoLostUpdate ==
    [][/\ (result'.op = "setStore" /\ result'.kind = "Ok")
            => {package_stores'[result'.caller]}
                  = PtrSet(StoreForWrite(result'.caller),
                           result'.value.path, result'.value.value)
       /\ (/\ result.op = "setStore" /\ result.kind = "Ok"
           /\ result'.op = "setStore" /\ result'.kind = "Ok"
           /\ result'.caller = result.caller
           /\ NonOverlapping(result.value.path, result'.value.path))
            => /\ PtrGet(package_stores'[result'.caller], result.value.path)
                     = {result.value.value}
               /\ PtrGet(package_stores'[result'.caller], result'.value.path)
                     = {result'.value.value}
      ]_vars

\* the second of two writes two segments deep has committed; both are there
C24_Witness ==
    /\ result.op = "setStore" /\ result.kind = "Ok" /\ result.caller = "a"
    /\ result.value.path = <<"j", "k">>
    /\ PtrGet(package_stores["a"], <<"j", "k">>) = {result.value.value}
    /\ PtrGet(package_stores["a"], <<"k", "j">>) = {Num(42)}

------------------------------------------------------------------------------
(* Property of SpecBoot: commits between the peek and the mutate *)

\* a dependency map without its config_satisfied flags
Unflag(deps) ==
    [d \in DOMAIN deps |-> [deps[d] EXCEPT !.config_satisfied = TRUE]]

\* a setDependencies of q is in effect and it committed after the peek: the
\* entry is no longer what the peek read
CommittedSincePeek(q) ==
    /\ ci.pc = "peeked" /\ q \in DOMAIN ci.snapshot /\ q \in Installed
    /\ hist.last_deps[q] # {}
    /\ Unflag(DepsOf(q)) # Unflag(ci.snapshot[q])

\* C25 as stated: when cleanup_and_initialize writes back, a setDependencies
\* commit that landed after its peek is still in effect, and a package that
\* was removed after the peek is not created again.
C25_NoLostCommit ==
    [][result'.op = "cleanupMutate"
          => /\ \A q \in PackageIds :
                   CommittedSincePeek(q)
                      => Unflag(package_data'[q].current_dependencies)
                            = Unflag(DepsOf(q))
             /\ DOMAIN package_data' = DOMAIN package_data
      ]_vars

------------------------------------------------------------------------------
(* Setup: setup.attach / setup.execute / setup.status / setup.complete *)

ReqIdle == [pc |-> "idle", kind |-> "none", source |-> "none"]

\* SetupClaim that does not look at setup_status
SetupClaimAnyway(op, r) ==
    /\ su' = [su EXCEPT !.req[r] = ReqIdle,
                        !.status = "running", !.bytes = 0,
                        !.spawned = @ + 1,
                        !.task = [pc |-> "work", kind |-> su.req[r].kind,
                                  source |-> su.req[r].source]]
    /\ result' = Ok(op, "none", "spawned")

\* the check and the write of setup_status under its write lock, and the spawn
SetupClaim(op, r) ==
    IF su.status # "none"
    THEN /\ su' = [su EXCEPT !.req[r] = ReqIdle]
         /\ result' = Err(op, "none", "InvalidRequest", "Setup already in progress")
    ELSE /\ su' = [su EXCEPT !.req[r] = ReqIdle,
                             !.status = "running", !.bytes = 0,
                             !.spawned = @ + 1,
                             !.task = [pc |-> "work", kind |-> su.req[r].kind,
                                       source |-> su.req[r].source]]
         /\ result' = Ok(op, "none", "spawned")

\* attach up to ctx.setup_status.write().await: the request waits for the lock
attach_enter(r) ==
    /\ su.req[r].pc = "idle"
    /\ su' = [su EXCEPT !.req[r] = [pc |-> "waiting", kind |-> "attach", source |-> "none"]]
    /\ result' = NoResult
    /\ UNCHANGED <<sysVars, ts, tmp, pw>>

attach(r) ==
    /\ su.req[r].pc = "waiting" /\ su.req[r].kind = "attach"
    /\ SetupClaim("attach", r)
    /\ UNCHANGED <<sysVars, ts, tmp, pw>>

\* execute up to ctx.setup_status.write().await: both passwords are decrypted
\* first, and a password that does not decrypt ends the call
execute_enter(r, decrypts, source) ==
    /\ su.req[r].pc = "idle"
    /\ IF ~decrypts
       THEN /\ result' = Err("execute", "none", "Unknown", "Couldn't decode embassy-password")
            /\ UNCHANGED su
       ELSE /\ su' = [su EXCEPT !.req[r] = [pc |-> "waiting", kind |-> "execute", source |-> source]]
            /\ result' = NoResult
    /\ UNCHANGED <<sysVars, ts, tmp, pw>>

execute(r) ==
    /\ su.req[r].pc = "waiting" /\ su.req[r].kind = "execute"
    /\ SetupClaim("execute", r)
    /\ UNCHANGED <<sysVars, ts, tmp, pw>>

\* migrate reports the bytes counted and copied, once a second
setup_task_progress ==
    /\ su.task.pc = "work" /\ su.task.source = "migrate"
    /\ su.bytes < MaxBytes
    /\ su' = [su EXCEPT !.status = "running", !.bytes = @ + 1]
    /\ result' = NoResult
    /\ UNCHANGED <<sysVars, ts, tmp, pw>>

\* the spawned task fails: *ctx.setup_status.write().await = Some(Err(e))
setup_task_fail ==
    /\ su.task.pc = "work"
    /\ su' = [su EXCEPT !.status = "failed", !.task.pc = "done"]
    /\ result' = NoResult
    /\ UNCHANGED <<sysVars, ts, tmp, pw>>

\* a task that reports complete before it stores its result
setup_task_status_first ==
    /\ su.task.pc = "work"
    /\ su' = [su EXCEPT !.status = "complete", !.task.pc = "result"]
    /\ result' = NoResult
    /\ UNCHANGED <<sysVars, ts, tmp, pw>>

\* the spawned task succeeds: *ctx.setup_result.write().await = Some(..)
setup_task_result ==
    /\ su.task.pc = "work"
    /\ su' = [su EXCEPT !.result = TRUE, !.task.pc = "result"]
    /\ result' = NoResult
    /\ UNCHANGED <<sysVars, ts, tmp, pw>>

\* ... and then *ctx.setup_status.write().await = Some(Ok(complete: true))
setup_task_status ==
    /\ su.task.pc = "result"
    /\ su' = [su EXCEPT !.result = TRUE, !.status = "complete", !.task.pc = "done"]
    /\ result' = NoResult
    /\ UNCHANGED <<sysVars, ts, tmp, pw>>

\* setup.status: setup_status.read().await.clone().transpose()
setup_status ==
    /\ result' = IF su.status = "failed"
                 THEN Err("status", "none", "SetupError", "none")
                 ELSE Ok("status", "none",
                         [some |-> su.status # "none",
                          complete |-> su.status = "complete",
                          bytes |-> su.bytes])
    /\ UNCHANGED <<sysVars, ioVars>>

\* complete that writes disk.guid without looking at setup_result
setup_complete_unchecked(io) ==
    /\ IF io = "fail"
       THEN /\ result' = Err("complete", "none", "Filesystem", "disk.guid")
            /\ UNCHANGED su
       ELSE /\ su' = [su EXCEPT !.guid_file = TRUE]
            /\ result' = Ok("complete", "none", "SetupResult")
    /\ UNCHANGED <<sysVars, ts, tmp, pw>>

\* setup.complete; io is whether File::create .. sync_all succeed
setup_complete(io) ==
    /\ IF ~su.result
       THEN /\ result' = Err("complete", "none", "InvalidRequest",
                             "setup.execute has not completed successfully")
            /\ UNCHANGED su
       ELSE IF io = "fail"
       THEN /\ result' = Err("complete", "none", "Filesystem", "disk.guid")
            /\ UNCHANGED su
       ELSE /\ su' = [su EXCEPT !.guid_file = TRUE]
            /\ result' = Ok("complete", "none", "SetupResult")
    /\ UNCHANGED <<sysVars, ts, tmp, pw>>

InitSetup == InitEffects

NextSetup ==
    \/ \E r \in SetupRequests : attach_enter(r)
    \/ \E r \in SetupRequests : attach(r)
    \/ \E r \in SetupRequests, decrypts \in BOOLEAN, source \in {"fresh", "migrate"} :
          execute_enter(r, decrypts, source)
    \/ \E r \in SetupRequests : execute(r)
    \/ setup_task_progress
    \/ setup_task_fail
    \/ setup_task_result
    \/ setup_task_status
    \/ setup_status
    \/ \E io \in {"ok", "fail"} : setup_complete(io)

SpecSetup == InitSetup /\ [][NextSetup]_vars

\* C27 as stated: once setup_status is set, every further attach or execute
\* fails with InvalidRequest and spawns nothing; at most one task is spawned.
C27_OneSetupTask ==
    [][/\ su'.spawned <= 1
       /\ (result'.op \in {"attach", "execute"} /\ su.status # "none")
             => /\ result'.kind = "InvalidRequest"
                /\ su'.spawned = su.spawned
      ]_vars

\* C27, amended: once setup_status is set, every further attach or execute
\* fails and spawns nothing, with InvalidRequest "Setup already in progress"
\* or, for an execute whose password does not decrypt, with Unknown; at most
\* one task is spawned, also when requests race for the lock.
C27_OneSetupTaskOrUnknown ==
    [][/\ su'.spawned <= 1
       /\ (result'.op \in {"attach", "execute"} /\ su.status # "none")
             => /\ \/ /\ result'.kind = "InvalidRequest"
                      /\ result'.value = "Setup already in progress"
                   \/ /\ result'.op = "execute" /\ result'.kind = "Unknown"
                /\ su'.spawned = su.spawned
                /\ su'.task = su.task /\ su'.status = su.status
      ]_vars

\* a further request has been refused after the one task failed
C27_Witness ==
    /\ result.op \in {"attach", "execute"} /\ result.kind = "InvalidRequest"
    /\ su.status = "failed" /\ su.spawned = 1

\* C28: whenever the status reports complete, setup_result is set; complete
\* fails with InvalidRequest and writes no disk.guid while setup_result is
\* unset, and does not fail that way once it is set.
C28_CompleteHasResult ==
    /\ [](su.status = "complete" => su.result)
    /\ [](su.guid_file => su.result)
    /\ [][result'.op = "complete"
            => /\ ~su.result => /\ result'.kind = "InvalidRequest"
                                /\ su'.guid_file = su.guid_file
               /\ su.result => result'.kind # "InvalidRequest"
         ]_vars

\* complete has been refused after a failed setup, with no disk.guid written
C28_Witness ==
    /\ result.op = "complete" /\ result.kind = "InvalidRequest"
    /\ su.status = "failed" /\ ~su.guid_file

\* a client has seen complete = true and its setup.complete has succeeded
C28_WitnessComplete ==
    /\ result.op = "complete" /\ result.kind = "Ok"
    /\ su.status = "complete" /\ su.guid_file

------------------------------------------------------------------------------
(* ParallelBlake3Writer: a writer task and the background hasher *)

\* BLAKE3 of a byte string; an incremental Hasher that was fed a then b holds
\* the hash state of a \o b
Blake3(bytes) == [blake3 |-> bytes]

Min(x, y) == IF x <= y THEN x ELSE y

\* Notify::notify_waiters: the Notified future that exists is completed, no
\* permit is kept when there is none
NotifyWaiters(n) == IF n = "waiting" THEN "fired" ELSE n

WrIdle == [op |-> "idle", at |-> "none", buf |-> <<>>, parked |-> FALSE, fin |-> FALSE]

\* the hasher's loop body under the mutex: swap(buffer, to_hash), take the
\* wakers, read shutdown, create the Notified future
hasher_lock ==
    /\ pw.h.pc = "lock"
    /\ pw' = [pw EXCEPT !.buffer = pw.h.to_hash,
                        !.wakers = 0,
                        !.notified = "waiting",
                        !.h.to_hash = pw.buffer,
                        !.h.wakers = pw.wakers,
                        !.h.shutdown = pw.shutdown,
                        !.h.pc = "update"]
    /\ result' = NoResult
    /\ UNCHANGED <<sysVars, ts, tmp, su>>

\* if to_hash.len() > 128 * 1024 { update_rayon } else { update }: the call
\* the hasher makes for a drained buffer of len bytes
update_api(len) == IF len > 128 * 1024 THEN "update_rayon" ELSE "update"

\* an update that leaves to_hash as it is
hasher_update_keep ==
    /\ pw.h.pc = "update"
    /\ pw' = [pw EXCEPT !.h.absorbed = @ \o pw.h.to_hash,
                        !.h.api = update_api(Len(pw.h.to_hash)),
                        !.h.pc = "wake"]
    /\ result' = NoResult
    /\ UNCHANGED <<sysVars, ts, tmp, su>>

\* hasher.update_rayon(&to_hash) or hasher.update(&to_hash), either of which
\* feeds to_hash to the Hasher (api keeps which one it was), and then
\* to_hash.truncate(0)
hasher_update ==
    /\ pw.h.pc = "update"
    /\ pw' = [pw EXCEPT !.h.absorbed = @ \o pw.h.to_hash,
                        !.h.api = update_api(Len(pw.h.to_hash)),
                        !.h.to_hash = <<>>,
                        !.h.pc = "wake"]
    /\ result' = NoResult
    /\ UNCHANGED <<sysVars, ts, tmp, su>>

\* for waker in wakers { waker.wake() }, then the loop condition
\* !shutdown && to_hash.len() == 0: await the Notified or leave the loop
hasher_wake ==
    /\ pw.h.pc = "wake"
    /\ pw' = [pw EXCEPT !.wr.parked = IF pw.h.wakers > 0 THEN FALSE ELSE @,
                        !.h.wakers = 0,
                        !.h.pc = IF ~pw.h.shutdown /\ Len(pw.h.to_hash) = 0
                                 THEN "await" ELSE "done"]
    /\ result' = NoResult
    /\ UNCHANGED <<sysVars, ts, tmp, su>>

\* notified.await returns once notify_waiters has been called since the
\* future was created
hasher_await ==
    /\ pw.h.pc = "await" /\ pw.notified = "fired"
    /\ pw' = [pw EXCEPT !.h.pc = "lock", !.notified = "none"]
    /\ result' = NoResult
    /\ UNCHANGED <<sysVars, ts, tmp, su>>

\* the bytes a write offers: the next k bytes of the stream 1, 2, 3, ...
Stream(k) == [j \in 1..k |-> Len(pw.accepted) + j]

\* the task polls a new operation, or polls again the one it was woken for
MayPoll(op, at) ==
    \/ pw.wr.op = "idle"
    \/ pw.wr.op = op /\ pw.wr.at = at /\ ~pw.wr.parked

\* what a return hands back to the task: the operation is over, or, inside
\* finalize, shutdown().await is over and the join of the hasher follows
Returned == IF pw.wr.fin THEN [WrIdle EXCEPT !.op = "join", !.fin = TRUE] ELSE WrIdle

\* poll_write that never notifies the hasher
poll_write_silent(buf) ==
    /\ MayPoll("write", "none")
    /\ pw.wr.op = "write" => buf = pw.wr.buf
    /\ pw.wr.op = "idle" => Len(pw.accepted) + Len(buf) <= MaxAccepted
    /\ IF pw.shutdown
       THEN /\ pw' = [pw EXCEPT !.wr = WrIdle]
            /\ result' = Err("hashWrite", "none", "BrokenPipe", 0)
       ELSE IF Len(pw.buffer) < pw.capacity
       THEN LET to_write == Min(pw.capacity - Len(pw.buffer), Len(buf))
            IN /\ pw' = [pw EXCEPT !.buffer = @ \o SubSeq(buf, 1, to_write),
                                   !.accepted = @ \o SubSeq(buf, 1, to_write),
                                   !.wr = WrIdle]
               /\ result' = Ok("hashWrite", "none", to_write)
       ELSE /\ pw' = [pw EXCEPT !.wakers = @ + 1,
                                !.wr = [WrIdle EXCEPT !.op = "write", !.buf = buf,
                                                      !.parked = TRUE]]
            /\ result' = Err("hashWrite", "none", "Pending", 0)
    /\ UNCHANGED <<sysVars, ts, tmp, su>>

\* poll_write that does not look at the shutdown flag
poll_write_late(buf) ==
    /\ MayPoll("write", "none")
    /\ pw.wr.op = "write" => buf = pw.wr.buf
    /\ pw.wr.op = "idle" => Len(pw.accepted) + Len(buf) <= MaxAccepted
    /\ IF Len(pw.buffer) < pw.capacity
       THEN LET to_write == Min(pw.capacity - Len(pw.buffer), Len(buf))
            IN /\ pw' = [pw EXCEPT !.buffer = @ \o SubSeq(buf, 1, to_write),
                                   !.accepted = @ \o SubSeq(buf, 1, to_write),
                                   !.notified =
                                       IF Len(pw.buffer) + to_write >= pw.capacity \div 2
                                       THEN NotifyWaiters(@) ELSE @,
                                   !.wr = WrIdle]
               /\ result' = Ok("hashWrite", "none", to_write)
       ELSE /\ pw' = [pw EXCEPT !.wakers = @ + 1,
                                !.wr = [WrIdle EXCEPT !.op = "write", !.buf = buf,
                                                      !.parked = TRUE]]
            /\ result' = Err("hashWrite", "none", "Pending", 0)
    /\ UNCHANGED <<sysVars, ts, tmp, su>>

\* poll_write that takes the whole of buf whenever the buffer is below capacity
poll_write_whole(buf) ==
    /\ MayPoll("write", "none")
    /\ pw.wr.op = "write" => buf = pw.wr.buf
    /\ pw.wr.op = "idle" => Len(pw.accepted) + Len(buf) <= MaxAccepted
    /\ IF pw.shutdown
       THEN /\ pw' = [pw EXCEPT !.wr = WrIdle]
            /\ result' = Err("hashWrite", "none", "BrokenPipe", 0)
       ELSE IF Len(pw.buffer) < pw.capacity
       THEN /\ pw' = [pw EXCEPT !.buffer = @ \o buf,
                                !.accepted = @ \o buf,
                                !.notified =
                                    IF Len(pw.buffer) + Len(buf) >= pw.capacity \div 2
                                    THEN NotifyWaiters(@) ELSE @,
                                !.wr = WrIdle]
            /\ result' = Ok("hashWrite", "none", Len(buf))
       ELSE /\ pw' = [pw EXCEPT !.wakers = @ + 1,
                                !.wr = [WrIdle EXCEPT !.op = "write", !.buf = buf,
                                                      !.parked = TRUE]]
            /\ result' = Err("hashWrite", "none", "Pending", 0)
    /\ UNCHANGED <<sysVars, ts, tmp, su>>

\* poll_write: accept what fits below capacity and notify the hasher from
\* half the capacity on; park on a full buffer; fail after shutdown
poll_write(buf) ==
    /\ MayPoll("write", "none")
    /\ pw.wr.op = "write" => buf = pw.wr.buf
    /\ pw.wr.op = "idle" => Len(pw.accepted) + Len(buf) <= MaxAccepted
    /\ IF pw.shutdown
       THEN /\ pw' = [pw EXCEPT !.wr = WrIdle]
            /\ result' = Err("hashWrite", "none", "BrokenPipe", 0)
       ELSE IF Len(pw.buffer) < pw.capacity
       THEN LET to_write == Min(pw.capacity - Len(pw.buffer), Len(buf))
            IN /\ pw' = [pw EXCEPT !.buffer = @ \o SubSeq(buf, 1, to_write),
                                   !.accepted = @ \o SubSeq(buf, 1, to_write),
                                   !.notified =
                                       IF Len(pw.buffer) + to_write >= pw.capacity \div 2
                                       THEN NotifyWaiters(@) ELSE @,
                                   !.wr = WrIdle]
               /\ result' = Ok("hashWrite", "none", to_write)
       ELSE /\ pw' = [pw EXCEPT !.wakers = @ + 1,
                                !.wr = [WrIdle EXCEPT !.op = "write", !.buf = buf,
                                                      !.parked = TRUE]]
            /\ result' = Err("hashWrite", "none", "Pending", 0)
    /\ UNCHANGED <<sysVars, ts, tmp, su>>

\* poll_flush: ready on an empty buffer, else register, notify and park
poll_flush ==
    /\ MayPoll("flush", "none")
    /\ IF Len(pw.buffer) = 0
       THEN /\ pw' = [pw EXCEPT !.wr = WrIdle]
            /\ result' = Ok("hashFlush", "none", "none")
       ELSE /\ pw' = [pw EXCEPT !.wakers = @ + 1,
                                !.notified = NotifyWaiters(@),
                                !.wr = [WrIdle EXCEPT !.op = "flush", !.parked = TRUE]]
            /\ result' = Err("hashFlush", "none", "Pending", "none")
    /\ UNCHANGED <<sysVars, ts, tmp, su>>

\* poll_shutdown, first half: futures::ready!(self.poll_flush(cx)?)
poll_shutdown_flush ==
    /\ MayPoll("shutdown", "flush")
    /\ IF Len(pw.buffer) = 0
       THEN /\ pw' = [pw EXCEPT !.wr.op = "shutdown", !.wr.at = "flag"]
            /\ result' = NoResult
       ELSE /\ pw' = [pw EXCEPT !.wakers = @ + 1,
                                !.notified = NotifyWaiters(@),
                                !.wr.op = "shutdown", !.wr.at = "flush",
                                !.wr.parked = TRUE]
            /\ result' = Err("hashShutdown", "none", "Pending", "none")
    /\ UNCHANGED <<sysVars, ts, tmp, su>>

\* poll_shutdown, second half: ready when shutdown is set and the buffer is
\* empty, else register, set shutdown, notify and park
poll_shutdown ==
    /\ pw.wr.op = "shutdown" /\ pw.wr.at = "flag"
    /\ IF pw.shutdown /\ Len(pw.buffer) = 0
       THEN /\ pw' = [pw EXCEPT !.wr = Returned]
            /\ result' = Ok("hashShutdown", "none", "none")
       ELSE /\ pw' = [pw EXCEPT !.wakers = @ + 1,
                                !.shutdown = TRUE,
                                !.notified = NotifyWaiters(@),
                                !.wr.at = "flush", !.wr.parked = TRUE]
            /\ result' = Err("hashShutdown", "none", "Pending", "none")
    /\ UNCHANGED <<sysVars, ts, tmp, su>>

\* finalize: self.shutdown().await begins
finalize_shutdown ==
    /\ pw.wr.op = "idle"
    /\ pw' = [pw EXCEPT !.wr = [WrIdle EXCEPT !.op = "shutdown", !.at = "flush",
                                              !.fin = TRUE]]
    /\ result' = NoResult
    /\ UNCHANGED <<sysVars, ts, tmp, su>>

\* finalize: self.hasher.await yields hasher.finalize() of the ended task
finalize ==
    /\ pw.wr.op = "join" /\ pw.h.pc = "done"
    /\ pw' = [pw EXCEPT !.wr.op = "finalized"]
    /\ result' = Ok("finalize", "none", Blake3(pw.h.absorbed))
    /\ UNCHANGED <<sysVars, ts, tmp, su>>

InitHash ==
    /\ package_data = [q \in PackageIds |-> NewEntry("1.0.0")]
    /\ package_stores = EmptyMap
    /\ services = PackageIds
    /\ seeds = PackageIds
    /\ ci = CiIdle
    /\ result = NoResult
    /\ hist = HistInit
    /\ persistent_container = PcInit
    /\ fs = FsInit
    /\ is_closed = FALSE
    /\ sd = SdIdle
    /\ ar = ArNone
    /\ ts = TsInit
    /\ tmp = TmpInit
    /\ su = SuInit
    /\ pw \in {Blake3WriterNew(capacity) : capacity \in 1..MaxCapacity}
    /\ tee = TeeInit
    /\ btr = BackTrackingReaderNew
    /\ ntp = NtpAfterInit(TRUE)

\* the steps of the hasher task
NextHasher ==
    \/ hasher_lock
    \/ hasher_update
    \/ hasher_wake
    \/ hasher_await

\* the writer's task goes on with the operation it is in
NextPending ==
    /\ pw.wr.op # "idle"
    /\ \/ poll_write(pw.wr.buf)
       \/ poll_flush
       \/ poll_shutdown_flush
       \/ poll_shutdown
       \/ finalize

NextHash ==
    \/ hasher_lock
    \/ hasher_update
    \/ hasher_wake
    \/ hasher_await
    \/ \E k \in 0..MaxBuf : poll_write(Stream(k))
    \/ poll_write(pw.wr.buf)
    \/ poll_flush
    \/ poll_shutdown_flush
    \/ poll_shutdown
    \/ finalize_shutdown
    \/ finalize

\* the executor runs the hasher task when it can go on, and polls the
\* writer's task again when it has been woken
SpecHash ==
    /\ InitHash /\ [][NextHash]_vars
    /\ WF_pw(NextHasher)
    /\ WF_pw(NextPending)

\* C29: finalize returns the BLAKE3 hash of the concatenation, in order, of
\* the prefixes poll_write accepted; on the way every accepted byte is in
\* exactly one place, in order: absorbed, then to_hash, then buffer.
C29_HashOfAccepted ==
    /\ [](pw.h.absorbed \o pw.h.to_hash \o pw.buffer = pw.accepted)
    /\ [][result'.op = "finalize" => result'.value = Blake3(pw.accepted)]_vars

\* finalize has returned the hash of a stream that was accepted in pieces,
\* the last of them right before the shutdown
C29_Witness ==
    /\ result.op = "finalize" /\ result.kind = "Ok"
    /\ pw.capacity = 1
    /\ Len(pw.accepted) = MaxAccepted
    /\ result.value = Blake3(pw.accepted)

\* C30: a parked poll is woken, a pending operation completes, the hasher
\* ends after shutdown, and finalize returns.
C30_NoLostWakeup ==
    /\ pw.wr.parked ~> ~pw.wr.parked
    /\ (pw.wr.op \in {"write", "flush", "shutdown"})
          ~> (pw.wr.op \in {"idle", "join", "finalized"})
    /\ pw.shutdown ~> (pw.h.pc = "done")
    /\ pw.wr.fin ~> (pw.wr.op = "finalized")

\* a write parked on a full buffer has been woken and has gone through
C30_Witness ==
    /\ result.op = "hashWrite" /\ result.kind = "Ok" /\ result.value > 0
    /\ pw.capacity = 1
    /\ Len(pw.accepted) = MaxAccepted
    /\ pw.h.pc = "await"

\* C31: once the shutdown flag is set, every poll_write fails with
\* BrokenPipe and leaves the shared buffer and the accepted stream as they
\* are, and the hash that finalize returns is that of the bytes accepted
\* before.
C31_WriteAfterShutdown ==
    /\ [][(pw.shutdown /\ result'.op = "hashWrite")
             => /\ result'.kind = "BrokenPipe"
                /\ pw'.buffer = pw.buffer
                /\ pw'.accepted = pw.accepted]_vars
    /\ [](pw.shutdown => pw.buffer = <<>>)

\* a write after a completed shutdown has been refused while bytes accepted
\* before it are in the stream
C31_Witness ==
    /\ result.op = "hashWrite" /\ result.kind = "BrokenPipe"
    /\ pw.shutdown /\ Len(pw.accepted) > 0

\* C32: the shared buffer holds at most capacity bytes, and together with
\* the hasher's to_hash at most twice as many.
C32_BufferBounded ==
    /\ Len(pw.buffer) <= pw.capacity
    /\ Len(pw.buffer) + Len(pw.h.to_hash) <= 2 * pw.capacity

\* both buffers are full at once
C32_Witness ==
    /\ Len(pw.buffer) = pw.capacity
    /\ Len(pw.h.to_hash) = pw.capacity

------------------------------------------------------------------------------
(* TeeWriter: one stream written to two inner writers *)

MaxTeeBuf == 3

MaxTeeAccepted == 4

\* Cursor<Vec<u8>>
Cursor(data) == [data |-> data, pos |-> 0]

\* CursorExt::remaining_slice
remaining_slice(cur) == SubSeq(cur.data, cur.pos + 1, Len(cur.data))

\* the unwritten bytes of a buffer of cursors
RECURSIVE Unwritten(_)
Unwritten(prefix) ==
    IF prefix = <<>> THEN <<>>
    ELSE remaining_slice(Head(prefix)) \o Unwritten(Tail(prefix))

\* the buffer_size of TeeWriter::poll_write: the lengths of the vectors
RECURSIVE VecBytes(_)
VecBytes(prefix) ==
    IF prefix = <<>> THEN 0 ELSE Len(Head(prefix).data) + VecBytes(Tail(prefix))

\* poll_flush_prefix on a writer that takes `budget` more bytes in this poll
\* and then answers Pending: the buffer left, the bytes delivered, the budget
\* left and whether the prefix went out whole
RECURSIVE poll_flush_prefix(_, _)
poll_flush_prefix(prefix, budget) ==
    IF prefix = <<>>
    THEN [prefix |-> <<>>, wrote |-> <<>>, left |-> budget, ready |-> TRUE]
    ELSE LET cur == Head(prefix)
             buf == remaining_slice(cur)
         IN  IF buf = <<>> THEN poll_flush_prefix(Tail(prefix), budget)
             ELSE IF budget >= Len(buf)
             THEN LET rest == poll_flush_prefix(Tail(prefix), budget - Len(buf))
                  IN  [rest EXCEPT !.wrote = buf \o @]
             ELSE [prefix |-> <<[cur EXCEPT !.pos = @ + budget]>> \o Tail(prefix),
                   wrote |-> SubSeq(buf, 1, budget),
                   left |-> 0, ready |-> FALSE]

\* poll_write_prefix_buf: the prefix first, then one poll_write of buf; n is
\* the count of a Ready answer, pending says the answer was Pending
poll_write_prefix_buf(prefix, buf, budget) ==
    LET f == poll_flush_prefix(prefix, budget) IN
    IF ~f.ready \/ f.left = 0
    THEN [prefix |-> f.prefix, wrote |-> f.wrote, left |-> f.left,
          pending |-> TRUE, n |-> 0]
    ELSE LET n == Min(f.left, Len(buf)) IN
         [prefix |-> f.prefix, wrote |-> f.wrote \o SubSeq(buf, 1, n),
          left |-> f.left - n, pending |-> FALSE, n |-> n]

\* the second half of TeeWriter::poll_write: both writers are offered buf,
\* the one that took less gets the difference buffered
TeeOffer(t, buf, a1, a2) ==
    LET r1 == poll_write_prefix_buf(t.buffer1, buf, a1)
        r2 == poll_write_prefix_buf(t.buffer2, buf, a2)
        w1 == r1.n
        w2 == r2.n
        sent == [t EXCEPT !.buffer1 = r1.prefix, !.buffer2 = r2.prefix,
                          !.out1 = @ \o r1.wrote, !.out2 = @ \o r2.wrote]
    IN  IF r1.pending /\ r2.pending
        THEN [t |-> sent, pending |-> TRUE, n |-> 0]
        ELSE [t |-> [sent EXCEPT
                       !.buffer2 = IF w1 > w2
                                   THEN @ \o <<Cursor(SubSeq(buf, w2 + 1, w1))>>
                                   ELSE @,
                       !.buffer1 = IF w1 < w2
                                   THEN @ \o <<Cursor(SubSeq(buf, w1 + 1, w2))>>
                                   ELSE @,
                       !.accepted = @ \o SubSeq(buf, 1, IF w1 > w2 THEN w1 ELSE w2)],
              pending |-> FALSE, n |-> IF w1 > w2 THEN w1 ELSE w2]

\* TeeWriter::poll_write that buffers nothing for the slower writer
TeeWriteForget(t, buf, a1, a2) ==
    LET r1 == poll_write_prefix_buf(t.buffer1, buf, a1)
        r2 == poll_write_prefix_buf(t.buffer2, buf, a2)
        sent == [t EXCEPT !.buffer1 = r1.prefix, !.buffer2 = r2.prefix,
                          !.out1 = @ \o r1.wrote, !.out2 = @ \o r2.wrote]
    IN  IF r1.pending /\ r2.pending
        THEN [t |-> sent, pending |-> TRUE, n |-> 0]
        ELSE [t |-> [sent EXCEPT !.accepted =
                        @ \o SubSeq(buf, 1, IF r1.n > r2.n THEN r1.n ELSE r2.n)],
              pending |-> FALSE, n |-> IF r1.n > r2.n THEN r1.n ELSE r2.n]

\* TeeWriter::poll_write: below capacity buf is cut down to the room left;
\* at capacity both buffers must go out first, and then buf is offered whole
TeeWrite(t, buf, a1, a2) ==
    LET buffer_size == VecBytes(t.buffer1) + VecBytes(t.buffer2) IN
    IF buffer_size < t.capacity
    THEN TeeOffer(t, SubSeq(buf, 1, Min(t.capacity - buffer_size, Len(buf))), a1, a2)
    ELSE LET f1 == poll_flush_prefix(t.buffer1, a1)
             f2 == poll_flush_prefix(t.buffer2, a2)
             flushed == [t EXCEPT !.buffer1 = f1.prefix, !.buffer2 = f2.prefix,
                                  !.out1 = @ \o f1.wrote, !.out2 = @ \o f2.wrote]
         IN  IF f1.ready /\ f2.ready
             THEN TeeOffer(flushed, buf, f1.left, f2.left)
             ELSE [t |-> flushed, pending |-> TRUE, n |-> 0]

\* the next k bytes of the stream 1, 2, 3, ... after those accepted
TeeStream(k) == [j \in 1..k |-> Len(tee.accepted) + j]

\* a poll of TeeWriter::poll_write with k bytes while the inner writers take
\* a1 and a2 bytes before they answer Pending
TeePollWrite(k, a1, a2) ==
    /\ Len(tee.accepted) + k <= MaxTeeAccepted
    /\ LET r == TeeWrite(tee, TeeStream(k), a1, a2) IN
       /\ tee' = r.t
       /\ result' = IF r.pending
                    THEN Err("teeWrite", "none", "Pending", "none")
                    ELSE Ok("teeWrite", "none", r.n)
    /\ UNCHANGED <<coreVars, ts, tmp, su, pw, btr, ntp>>

\* TeeWriter::poll_flush (and poll_shutdown, which calls it): both prefixes
\* go out and both inner writers are flushed; fl1 and fl2 are whether the
\* inner poll_flush answers Ready
TeePollFlush(op, a1, a2, fl1, fl2) ==
    /\ LET f1 == poll_flush_prefix(tee.buffer1, a1)
           f2 == poll_flush_prefix(tee.buffer2, a2)
       IN  /\ tee' = [tee EXCEPT !.buffer1 = f1.prefix, !.buffer2 = f2.prefix,
                                 !.out1 = @ \o f1.wrote, !.out2 = @ \o f2.wrote]
           /\ result' = IF f1.ready /\ fl1 /\ f2.ready /\ fl2
                        THEN Ok(op, "none", "none")
                        ELSE Err(op, "none", "Pending", "none")
    /\ UNCHANGED <<coreVars, ts, tmp, su, pw, btr, ntp>>

TeeBudgets == 0..(MaxTeeCapacity + MaxTeeBuf)

InitTee ==
    /\ package_data = [q \in PackageIds |-> NewEntry("1.0.0")]
    /\ package_stores = EmptyMap
    /\ services = PackageIds
    /\ seeds = PackageIds
    /\ ci = CiIdle
    /\ result = NoResult
    /\ hist = HistInit
    /\ persistent_container = PcInit
    /\ fs = FsInit
    /\ is_closed = FALSE
    /\ sd = SdIdle
    /\ ar = ArNone
    /\ ts = TsInit
    /\ tmp = TmpInit
    /\ su = SuInit
    /\ pw = PwInit
    /\ tee \in {TeeWriterNew(capacity) : capacity \in 1..MaxTeeCapacity}
    /\ btr = BackTrackingReaderNew
    /\ ntp = NtpAfterInit(TRUE)

NextTee ==
    \/ \E k \in 0..MaxTeeBuf, a1 \in TeeBudgets, a2 \in TeeBudgets :
          TeePollWrite(k, a1, a2)
    \/ \E op \in {"teeFlush", "teeShutdown"}, a1 \in TeeBudgets, a2 \in TeeBudgets,
          fl1 \in BOOLEAN, fl2 \in BOOLEAN :
          TeePollFlush(op, a1, a2, fl1, fl2)

SpecTee == InitTee /\ [][NextTee]_vars

\* C33: what writer1 got followed by what buffer1 still holds for it is what
\* writer2 got followed by what buffer2 holds, and is the accepted stream;
\* when a flush completes both writers have got the accepted stream.
C33_TeeSameStream ==
    /\ [](/\ tee.out1 \o Unwritten(tee.buffer1) = tee.accepted
          /\ tee.out2 \o Unwritten(tee.buffer2) = tee.accepted)
    /\ [][(result'.op \in {"teeFlush", "teeShutdown"} /\ result'.kind = "Ok")
             => /\ tee'.out1 = tee'.accepted
                /\ tee'.out2 = tee'.accepted]_vars

\* a flush has completed after one writer had lagged behind the other
C33_Witness ==
    /\ result.op = "teeFlush" /\ result.kind = "Ok"
    /\ Len(tee.accepted) = MaxTeeAccepted
    /\ tee.out1 = tee.accepted /\ tee.out2 = tee.accepted
    /\ tee.capacity = MaxTeeCapacity

\* C34 as stated: the bytes held in buffer1 and buffer2 never exceed capacity.
C34_TeeBufferBounded ==
    Len(Unwritten(tee.buffer1)) + Len(Unwritten(tee.buffer2)) <= tee.capacity

------------------------------------------------------------------------------
(* BackTrackingReader over an inner reader of the stream 1, 2, .., MaxStream *)

MaxStream == 4

MaxRead == 2

\* bytes from + 1 .. from + k of the stream
Segment(from, k) == [j \in 1..k |-> from + j]

\* one poll_read of the inner reader into `room` bytes when it has k bytes at
\* hand: Pending with none, Ready with no bytes at the end of the stream
InnerRead(room, k) ==
    IF btr.pos = MaxStream THEN [pending |-> FALSE, bytes |-> <<>>]
    ELSE IF k = 0 THEN [pending |-> TRUE, bytes |-> <<>>]
    ELSE [pending |-> FALSE,
          bytes |-> Segment(btr.pos, Min(Min(k, room), MaxStream - btr.pos))]

\* CursorExt::pure_read: what the cursor copies into `room` bytes
pure_read(buffer, position, room) ==
    SubSeq(buffer, position + 1, position + Min(room, Len(buffer) - position))

start_buffering ==
    /\ btr' = [btr EXCEPT !.position = 0, !.buffer = <<>>, !.buffering = TRUE,
                          !.next = btr.pos, !.mark = btr.pos]
    /\ result' = Ok("startBuffering", "none", "none")
    /\ UNCHANGED <<coreVars, ts, tmp, su, pw, tee, ntp>>

stop_buffering ==
    /\ btr' = [btr EXCEPT !.position = 0, !.buffer = <<>>, !.buffering = FALSE,
                          !.next = btr.pos]
    /\ result' = Ok("stopBuffering", "none", "none")
    /\ UNCHANGED <<coreVars, ts, tmp, su, pw, tee, ntp>>

\* a rewind that throws the buffer away
rewind_forget ==
    /\ btr' = [btr EXCEPT !.position = 0, !.buffer = <<>>, !.buffering = FALSE,
                          !.next = IF btr.buffering THEN btr.mark ELSE @]
    /\ result' = Ok("rewind", "none", "none")
    /\ UNCHANGED <<coreVars, ts, tmp, su, pw, tee, ntp>>

\* rewind: buffering ends, the buffer is kept to be replayed from position 0
rewind ==
    /\ btr' = [btr EXCEPT !.buffering = FALSE,
                          !.next = IF btr.buffering THEN btr.mark ELSE @]
    /\ result' = Ok("rewind", "none", "none")
    /\ UNCHANGED <<coreVars, ts, tmp, su, pw, tee, ntp>>

\* poll_read into n free bytes while the inner reader has k bytes at hand
BackTrackingPollRead(n, k) ==
    /\ IF btr.buffering
       THEN LET res == InnerRead(n, k) IN
            /\ btr' = [btr EXCEPT !.buffer = @ \o res.bytes,
                                  !.pos = @ + Len(res.bytes),
                                  !.next = @ + Len(res.bytes)]
            /\ result' = IF res.pending
                         THEN Err("btRead", "none", "Pending", "none")
                         ELSE Ok("btRead", "none",
                                 [bytes |-> res.bytes, replayed |-> 0])
       ELSE LET replay == IF btr.position < Len(btr.buffer)
                          THEN pure_read(btr.buffer, btr.position, n) ELSE <<>>
                ready == btr.position < Len(btr.buffer)
                res == IF n - Len(replay) > 0
                       THEN InnerRead(n - Len(replay), k)
                       ELSE [pending |-> FALSE, bytes |-> <<>>]
            IN  /\ btr' = [btr EXCEPT !.position = @ + Len(replay),
                                      !.pos = @ + Len(res.bytes),
                                      !.next = @ + Len(replay) + Len(res.bytes)]
                /\ result' = IF res.pending /\ ~ready
                             THEN Err("btRead", "none", "Pending", "none")
                             ELSE Ok("btRead", "none",
                                     [bytes |-> replay \o res.bytes,
                                      replayed |-> Len(replay)])
    /\ UNCHANGED <<coreVars, ts, tmp, su, pw, tee, ntp>>

InitBackTracking == InitEffects

NextBackTracking ==
    \/ start_buffering
    \/ stop_buffering
    \/ rewind
    \/ \E n \in 1..MaxRead, k \in 0..MaxRead : BackTrackingPollRead(n, k)

SpecBackTracking == InitBackTracking /\ [][NextBackTracking]_vars

\* C35: every read returns the next bytes of the stream at the consumer's
\* place, where rewind after start_buffering takes the consumer back to the
\* place of start_buffering and stop_buffering (or a new start_buffering)
\* puts it at the inner reader's place; so after a rewind the bytes read
\* while buffering come again, in order, however the reads are cut, and
\* then the rest of the stream.
C35_ReplayThenRest ==
    /\ [][(result'.op = "btRead" /\ result'.kind = "Ok")
             => /\ result'.value.bytes
                      = Segment(btr.next, Len(result'.value.bytes))
                /\ btr'.next = btr.next + Len(result'.value.bytes)]_vars
    /\ [](~btr.buffering
             => btr.next + (Len(btr.buffer) - btr.position) = btr.pos)
    /\ [][result'.op = "stopBuffering" => btr'.next = btr.pos]_vars
    /\ [][(result'.op = "rewind" /\ btr.buffering)
             => /\ btr'.next = btr.mark
                /\ btr'.position = 0
                /\ btr'.buffer = Segment(btr.mark, btr.pos - btr.mark)]_vars

\* after a rewind the replay was cut in two, and the second read went on into
\* bytes that had not been read before
C35_Witness ==
    /\ result.op = "btRead" /\ result.kind = "Ok"
    /\ ~btr.buffering /\ Len(btr.buffer) = 3 /\ btr.position = 3
    /\ result.value.replayed = 1 /\ Len(result.value.bytes) = 2
    /\ btr.mark = 0 /\ btr.next = 4

------------------------------------------------------------------------------
(* RpcContext::init: the NTP watcher, next to RpcContext::shutdown *)

NtpRunning == {"check", "sleep", "write"}

\* check_time_is_synchronized().await.unwrap(): Ok(true) leaves the loop,
\* Ok(false) goes to sleep, Err(_) panics the task
ntp_check(outcome) ==
    /\ ntp.task = "check"
    /\ ntp' = [ntp EXCEPT !.task = CASE outcome = "synced" -> "write"
                                     [] outcome = "unsynced" -> "sleep"
                                     [] OTHER -> "panicked"]
    /\ result' = IF outcome = "error"
                 THEN Err("ntpCheck", "none", "Unknown", outcome)
                 ELSE Ok("ntpCheck", "none", outcome)
    /\ UNCHANGED <<coreVars, ts, tmp, su, pw, tee, btr>>

\* tokio::time::sleep(Duration::from_secs(30)).await is over
ntp_sleep ==
    /\ ntp.task = "sleep"
    /\ ntp' = [ntp EXCEPT !.task = "check"]
    /\ result' = NoResult
    /\ UNCHANGED <<coreVars, ts, tmp, su, pw, tee, btr>>

\* db.mutate(|v| ...as_ntp_synced_mut().ser(&true)).await.unwrap(): the task
\* ends after the write, or panics when the write fails
ntp_mutate(ok) ==
    /\ ntp.task = "write"
    /\ ntp' = IF ok THEN [synced |-> TRUE, task |-> "done"]
              ELSE [ntp EXCEPT !.task = "panicked"]
    /\ result' = IF ok THEN Ok("ntpMutate", "none", "none")
                 ELSE Err("ntpMutate", "none", "Database", "none")
    /\ UNCHANGED <<coreVars, ts, tmp, su, pw, tee, btr>>

InitNtp ==
    /\ package_data = [q \in PackageIds |-> NewEntry("1.0.0")]
    /\ package_stores = EmptyMap
    /\ services = PackageIds
    /\ seeds = PackageIds
    /\ ci = CiIdle
    /\ result = NoResult
    /\ hist = HistInit
    /\ persistent_container = PcInit
    /\ fs = FsInit
    /\ is_closed = FALSE
    /\ sd = SdIdle
    /\ ar = ArNone
    /\ ts = TsInit
    /\ tmp = TmpInit
    /\ su = SuInit
    /\ pw = PwInit
    /\ tee = TeeInit
    /\ btr = BackTrackingReaderNew
    /\ ntp \in {NtpAfterInit(synced) : synced \in BOOLEAN}

NextWatcher ==
    \/ \E outcome \in {"synced", "unsynced", "error"} : ntp_check(outcome)
    \/ ntp_sleep
    \/ \E ok \in BOOLEAN : ntp_mutate(ok)

NextNtp ==
    \/ NextWatcher
    \/ shutdown_begin
    \/ \E p \in PackageIds : shutdown_service(p)
    \/ \E p \in PackageIds : shutdown_fail(p)
    \/ shutdown_store

\* the runtime keeps running the watcher; the clock is found synchronized in
\* the end whenever the watcher keeps asking, and the database write succeeds
\* in the end whenever it keeps being tried
SpecNtp ==
    /\ InitNtp
    /\ [][NextNtp]_vars
    /\ WF_ntp(NextWatcher)
    /\ SF_ntp(ntp_check("synced"))
    /\ SF_ntp(ntp_mutate(TRUE))

\* C37 as stated: a watcher started because ntp_synced was false keeps
\* running while the bit is false, a failed check and a failed write
\* included; the bit becomes true in the end; and it never goes back from
\* true to false.
C37_WatcherRetries ==
    /\ [][(result'.op \in {"ntpCheck", "ntpMutate"} /\ result'.kind # "Ok")
             => ntp'.task \in NtpRunning]_vars
    /\ [][ntp.synced => ntp'.synced]_vars
    /\ (ntp.task \in NtpRunning) ~> ntp.synced

\* C38 as stated: once shutdown has returned Ok the watcher is not running
\* and the bit is not written any more.
C38_NoTaskAfterShutdown ==
    /\ [](sd.pc = "done" => ntp.task \notin NtpRunning)
    /\ [][sd.pc = "done" => ntp'.synced = ntp.synced]_vars

------------------------------------------------------------------------------
(* An archive that is read, changed through contents_mut and written again *)

\* *archive.contents_mut() = d
ArContentsMut(d) ==
    /\ ar' = [ar EXCEPT !.cur.contents = d]
    /\ result' = Ok("contentsMut", "none", "none")
    /\ UNCHANGED nonArVars

\* archive.set_signer(key, context)
ArSetSigner(key, context) ==
    /\ ar' = [ar EXCEPT !.cur.signer = SignerKey(key, context)]
    /\ result' = Ok("setSigner", "none", "none")
    /\ UNCHANGED nonArVars

\* the directories put in place through contents_mut: empty, one file, two
ResignDirs ==
    {<<>>,
     <<Named("x", EntryNew(FileContents(<<7>>)))>>,
     <<Named("x", EntryNew(FileContents(<<7>>))),
       Named("y", EntryNew(FileContents(<<>>)))>>}

InitResign ==
    /\ package_data = EmptyMap
    /\ package_stores = EmptyMap
    /\ services = {}
    /\ seeds = {}
    /\ ci = CiIdle
    /\ result = NoResult
    /\ hist = HistInit
    /\ persistent_container = PcInit
    /\ fs = FsInit
    /\ is_closed = FALSE
    /\ sd = SdIdle
    /\ IoInit
    /\ \E d \in ResignDirs :
          LET A == MerkleArchiveNew(d, "k1", "c1") IN
          ar = [orig |-> A, cur |-> A, wire |-> {}, from |-> "none"]

NextResign ==
    \/ \E verify \in BOOLEAN : ArSerialize(verify)
    \/ \E context \in Contexts : ArDeserialize(context)
    \/ \E d \in ResignDirs : ArContentsMut(d)
    \/ \E key \in {"k1", "k2"}, context \in Contexts : ArSetSigner(key, context)

SpecResign == InitResign /\ [][NextResign]_vars

\* C39 as stated: whatever serialize has written for an archive, one made by
\* MerkleArchive::new or read by deserialize and changed since, deserialize
\* accepts under the context of that archive.
C39_SerializedIsAccepted ==
    [][(result'.op = "serialize" /\ result'.kind = "Ok")
          => \A w \in ar'.wire : deserialize(w, ar.cur.signer.context).ok]_vars

------------------------------------------------------------------------------
(* ParallelBlake3Writer with buffers around 128 KiB *)

MaxDelta == 2

\* a writer of capacity 128 KiB + MaxDelta that has accepted one write of n
\* bytes which its hasher has not looked at yet
Blake3WriterFilled(n) ==
    [Blake3WriterNew(128 * 1024 + MaxDelta) EXCEPT
        !.buffer = [j \in 1..n |-> j],
        !.accepted = [j \in 1..n |-> j]]

InitParallel ==
    /\ package_data = [q \in PackageIds |-> NewEntry("1.0.0")]
    /\ package_stores = EmptyMap
    /\ services = PackageIds
    /\ seeds = PackageIds
    /\ ci = CiIdle
    /\ result = NoResult
    /\ hist = HistInit
    /\ persistent_container = PcInit
    /\ fs = FsInit
    /\ is_closed = FALSE
    /\ sd = SdIdle
    /\ ar = ArNone
    /\ ts = TsInit
    /\ tmp = TmpInit
    /\ su = SuInit
    /\ pw \in {Blake3WriterFilled(n) :
                  n \in (128 * 1024 - MaxDelta)..(128 * 1024 + MaxDelta)}
    /\ tee = TeeInit
    /\ btr = BackTrackingReaderNew
    /\ ntp = NtpAfterInit(TRUE)

NextParallel ==
    \/ hasher_lock
    \/ hasher_update
    \/ hasher_wake
    \/ hasher_await
    \/ poll_flush
    \/ poll_shutdown_flush
    \/ poll_shutdown
    \/ finalize_shutdown
    \/ finalize

SpecParallel == InitParallel /\ [][NextParallel]_vars

\* C40 as stated: a drained buffer of at least 128 KiB (131072 bytes) goes to
\* the parallel call, a smaller one to the serial call, and what the Hasher
\* has taken in is the same for both: the old input followed by the buffer.
C40_ParallelFrom128KiB ==
    [][(pw.h.pc = "update" /\ pw'.h.pc = "wake")
          => /\ pw'.h.api = IF Len(pw.h.to_hash) >= 131072
                            THEN "update_rayon" ELSE "update"
             /\ pw'.h.absorbed = pw.h.absorbed \o pw.h.to_hash]_vars
====
